---- MODULE Spec2Model ----
(***************************************************************************)
(* Omni-Pro treadmill driver: the signal engine (OnOmniData), the action   *)
(* classifier (MatchesPattern), the injection policy at the four           *)
(* interception sites of the OpenVR wrapper and the OpenXR layer, and the   *)
(* SteamVR driver's smoothed state.                                         *)
(*                                                                         *)
(* The three binaries (driver_treadmill, TreadmillOpenVRWrapper,           *)
(* TreadmillOpenXRLayer) are separate DLLs, each with its own globals; a   *)
(* behaviour of this model is one process that has loaded one of them      *)
(* (variable module).                                                      *)
(*                                                                         *)
(* Numbers: a float v is the integer v*Scale, products and quotients       *)
(* truncated toward zero.  Strings that are matched are sequences of       *)
(* one-character strings.                                                  *)
(***************************************************************************)
EXTENDS Integers, Sequences, FiniteSets, TLC

\* ------------------------------------------------------------ bounds
MaxIngest == 2        \* OnOmniData callbacks per behaviour
MaxAction == 2        \* action handles the host runtime hands out
MaxTime == 2          \* clock readings (milliseconds)
MaxInit == 2          \* runs of the lazy initialization that are counted
MaxTick == 3          \* pose ticks counted since the validator's last verdict

\* ------------------------------------------------------------ numbers
Scale == 10 ^ 3

Abs(v) == IF v < 0 THEN -v ELSE v

\* C++ float division, truncated toward zero (b # 0)
Div(a, b) ==
    LET q == Abs(a) \div Abs(b)
    IN  IF (a < 0) = (b < 0) THEN q ELSE -q

\* C++ float product of two scaled values
Mul(a, b) == Div(a * b, Scale)

\* std::clamp(v, lo, hi)
clamp(v, lo, hi) == IF v < lo THEN lo ELSE IF hi < v THEN hi ELSE v

\* ------------------------------------------------------------ strings
UpperCase == <<"A","B","C","D","E","F","G","H","I","J","K","L","M",
               "N","O","P","Q","R","S","T","U","V","W","X","Y","Z">>
LowerCase == <<"a","b","c","d","e","f","g","h","i","j","k","l","m",
               "n","o","p","q","r","s","t","u","v","w","x","y","z">>

\* ::tolower on one character
tolower(c) ==
    IF \E i \in 1..26 : UpperCase[i] = c
    THEN LowerCase[CHOOSE i \in 1..26 : UpperCase[i] = c]
    ELSE c

\* std::transform(s.begin(), s.end(), s.begin(), ::tolower)
transform_tolower(s) == [i \in 1..Len(s) |-> tolower(s[i])]

\* text.find(s) != std::string::npos
find(text, s) ==
    \E i \in 0..(Len(text) - Len(s)) : SubSeq(text, i + 1, i + Len(s)) = s

\* text.substr(pos, n), pos <= size: at most n characters from offset pos
substr(text, pos, n) ==
    SubSeq(text, pos + 1, IF pos + n > Len(text) THEN Len(text) ELSE pos + n)

\* variant for C7: the same matcher on the strings as given, with no
\* case folding
MatchesPattern_caseSensitive(text, pattern) ==
    LET startWild == pattern[1] = "*"
        endWild == pattern[Len(pattern)] = "*"
        s1 == IF startWild THEN substr(pattern, 1, Len(pattern)) ELSE pattern
        searchStr == IF endWild /\ s1 # <<>>
                     THEN substr(s1, 0, Len(s1) - 1) ELSE s1
    IN  IF pattern = <<>> THEN FALSE
        ELSE IF startWild /\ endWild THEN find(text, searchStr)
        ELSE IF startWild THEN
            /\ Len(text) >= Len(searchStr)
            /\ substr(text, Len(text) - Len(searchStr), Len(searchStr))
                   = searchStr
        ELSE IF endWild THEN substr(text, 0, Len(searchStr)) = searchStr
        ELSE text = searchStr

\* MatchesPattern (TreadmillLayer's copy, treadmill_input.cpp 255-280, is the
\* same text)
MatchesPattern(text, pattern) ==
    LET lowerText == transform_tolower(text)
        lowerPattern == transform_tolower(pattern)
        startWild == lowerPattern[1] = "*"
        endWild == lowerPattern[Len(lowerPattern)] = "*"
        s1 == IF startWild THEN substr(lowerPattern, 1, Len(lowerPattern))
                           ELSE lowerPattern
        searchStr == IF endWild /\ s1 # <<>>
                     THEN substr(s1, 0, Len(s1) - 1) ELSE s1
    IN  IF lowerPattern = <<>> THEN FALSE
        ELSE IF startWild /\ endWild THEN find(lowerText, searchStr)
        ELSE IF startWild THEN
            /\ Len(lowerText) >= Len(searchStr)
            /\ substr(lowerText, Len(lowerText) - Len(searchStr),
                      Len(searchStr)) = searchStr
        ELSE IF endWild THEN substr(lowerText, 0, Len(searchStr)) = searchStr
        ELSE lowerText = searchStr

\* ------------------------------------------------------------ engine helpers
\* variant for C16: values outside the deadzone pass through as they are
ApplyDeadzone_noRescale(value, deadzone) ==
    IF Abs(value) < deadzone THEN 0 ELSE value

\* ApplyDeadzone (the layer's copy, treadmill_input.cpp 243-249, is the same)
ApplyDeadzone(value, deadzone) ==
    IF Abs(value) < deadzone THEN 0
    ELSE LET sign == IF value > 0 THEN 1 ELSE -1
         IN  Div(sign * (Abs(value) - deadzone) * Scale, Scale - deadzone)

\* variant for C11: the factor weighs the previous value instead of
\* the new sample
ApplySmoothing_weightsOld(current, target, factor) ==
    target + Mul(current - target, factor)

\* variant for C12: the step is a whole difference too long
ApplySmoothing_overshoots(current, target, factor) ==
    current + Mul(target - current, factor + Scale)

\* ApplySmoothing (the layer's copy, treadmill_input.cpp 251-253, is the same)
ApplySmoothing(current, target, factor) ==
    current + Mul(target - current, factor)

\* (static_cast<float>(gamePad) - 127.0f) / 127.0f
Normalize(gamePad) == Div((gamePad - 127) * Scale, 127)

\* ------------------------------------------------------------ configuration
\* Config::actionPatterns' initializer: "*move*", "*locomotion*", "*walk*",
\* "*thumbstick*"
DefaultPatterns ==
    << <<"*","m","o","v","e","*">>,
       <<"*","l","o","c","o","m","o","t","i","o","n","*">>,
       <<"*","w","a","l","k","*">>,
       <<"*","t","h","u","m","b","s","t","i","c","k","*">> >>

\* struct Config of TreadmillWrapper with its member initializers
TreadmillWrapper_Config ==
    [ enabled |-> TRUE, speedMultiplier |-> 1500, deadzone |-> 100,
      smoothing |-> 300, targetControllerIndex |-> -1, inputMode |-> "Smart",
      actionPatterns |-> DefaultPatterns ]

\* struct Config of TreadmillLayer with its member initializers
TreadmillLayer_Config ==
    [ enabled |-> TRUE, speedMultiplier |-> 1500, deadzone |-> 100,
      smoothing |-> 300, inputMode |-> "Smart",
      actionPatterns |-> DefaultPatterns,
      targetPaths |-> << <<"user", "hand", "left", "input", "thumbstick">> >> ]

\* the inputMode branch of Config::Load
ParseInputMode(value) ==
    IF value = "override" THEN "Override"
    ELSE IF value = "additive" THEN "Additive"
    ELSE "Smart"

\* A configuration file is [exists |-> FALSE] or a record with exists = TRUE
\* and one field per "key": value line; a numeric field holds the number
\* std::stof reads, scaled.  Keys Load has no branch for are ignored.
TreadmillWrapper_Config_Load(file) ==
    LET config == TreadmillWrapper_Config
        has(k) == k \in DOMAIN file
    IN  IF ~file.exists THEN config
        ELSE [ enabled |-> IF has("enabled") THEN file.enabled = "true"
                           ELSE config.enabled,
               speedMultiplier |-> IF has("speedMultiplier")
                                   THEN file.speedMultiplier
                                   ELSE config.speedMultiplier,
               deadzone |-> IF has("deadzone") THEN file.deadzone
                            ELSE config.deadzone,
               smoothing |-> IF has("smoothing") THEN file.smoothing
                             ELSE config.smoothing,
               targetControllerIndex |->
                   IF has("targetControllerIndex")
                   THEN file.targetControllerIndex
                   ELSE config.targetControllerIndex,
               inputMode |-> IF has("inputMode")
                             THEN ParseInputMode(file.inputMode)
                             ELSE config.inputMode,
               actionPatterns |-> config.actionPatterns ]

TreadmillLayer_Config_Load(file) ==
    LET config == TreadmillLayer_Config
        has(k) == k \in DOMAIN file
    IN  IF ~file.exists THEN config
        ELSE [ enabled |-> IF has("enabled") THEN file.enabled = "true"
                           ELSE config.enabled,
               speedMultiplier |-> IF has("speedMultiplier")
                                   THEN file.speedMultiplier
                                   ELSE config.speedMultiplier,
               deadzone |-> IF has("deadzone") THEN file.deadzone
                            ELSE config.deadzone,
               smoothing |-> IF has("smoothing") THEN file.smoothing
                             ELSE config.smoothing,
               inputMode |-> IF has("inputMode")
                             THEN ParseInputMode(file.inputMode)
                             ELSE config.inputMode,
               actionPatterns |-> config.actionPatterns,
               targetPaths |-> config.targetPaths ]

\* ------------------------------------------------------------ input sets
\* the configuration files a process may find next to the DLL (a key the
\* loader does not know, such as activationThreshold, may be in the file)
ConfigFiles ==
    { [exists |-> FALSE],
      [exists |-> TRUE, inputMode |-> "override", activationThreshold |-> 500],
      [exists |-> TRUE, inputMode |-> "additive", speedMultiplier |-> 1000],
      [exists |-> TRUE, inputMode |-> "override", deadzone |-> 0,
       speedMultiplier |-> 50, smoothing |-> 1000],
      [exists |-> TRUE, inputMode |-> "additive", targetControllerIndex |-> 1],
      [exists |-> TRUE, inputMode |-> "smart", targetControllerIndex |-> 1],
      [exists |-> TRUE, smoothing |-> 2000] }

\* the driver_treadmill section of the SteamVR settings: a key that is absent
\* makes GetFloat report an error
DriverSettings ==
    { [exists |-> FALSE],
      [exists |-> TRUE, speed_factor |-> 1500, smoothing_factor |-> 500],
      [exists |-> TRUE, speed_factor |-> 0, smoothing_factor |-> 2000] }

PadValues == {127, 159, 255}
RingAngles == {90 * Scale, 370 * Scale}

\* what the host's own binding returns for a two-axis read: the value and
\* the active flag
HostData ==
    { [value |-> <<0, 0>>, active |-> FALSE],
      [value |-> <<500, -500>>, active |-> TRUE],
      [value |-> <<980, -1000>>, active |-> TRUE] }

\* the same bindings read as a one-axis action, and as the joystick axis of
\* a VRControllerState_t (which has no active flag)
HostFloat == {[value |-> <<d.value[1]>>, active |-> d.active] : d \in HostData}
HostAxis == {[value |-> d.value] : d \in HostData}

\* pad samples (gamePadX, gamePadY): centred, a slight push right, full
\* forward, full right with a slight pull back
PadPairs == {<<127, 127>>, <<150, 127>>, <<127, 0>>, <<254, 150>>}

Move == <<"L","e","f","t","H","a","n","d","/","L","o","c","o","m","o","t",
          "i","o","n","/","M","o","v","e">>
Jump == <<"J","u","m","p">>
WalkY == <<"w","a","l","k","_","y">>
ActionNames == {Move, Jump, WalkY}

Handles == 1..MaxAction
Devices == {1, 2}
\* XrPath values, as the sequence of their components: /user/hand/left, ...
SubactionPaths == {<<"user", "hand", "left">>, <<"user", "hand", "right">>}

\* ------------------------------------------------------------ state
VARIABLES
    module,              \* the DLL this process has loaded
    configFile,          \* the configuration file (settings section) on disk
    g_initialized,       \* dllmain.cpp / layer_main.cpp: lazy-init flag
    g_realOpenVR,        \* wrapper: openvr_api_original.dll is loaded
    g_realIVRInput,      \* wrapper: the IVRInput interface is wrapped
    g_realIVRSystem,     \* wrapper: the IVRSystem interface is wrapped
    Real_xr,             \* layer: the dispatch table holds the next layer
    g_config,            \* Config g_config
    s_library,           \* OmniBridge::s_library ("null" or "dll")
    s_reader,            \* OmniBridge::s_reader ("null" or "reader")
    s_connected,         \* OmniBridge::s_connected
    g_treadmillState,    \* TreadmillState g_treadmillState
    g_actionNames,       \* handle -> action name
    g_isMovementAction,  \* handle -> bool
    host,                \* the real runtime: instance alive, its actions
    ret,                 \* the last intercepted read, as the host gets it
    producer,            \* the hardware reader's thread inside OnOmniData
    reader,              \* a host thread inside Wrapped_GetAnalogActionData;
                         \* driver: the runtime's thread inside RunFrame
    g_state,             \* driver: XYState g_state
    g_speedFactor,       \* driver: std::atomic<float> g_speedFactor
    g_smoothingFactor,   \* driver: std::atomic<float> g_smoothingFactor
    match,               \* the last MatchesPattern loop, with its inputs
    attached,            \* the DLL is mapped (until DLL_PROCESS_DETACH)
    m_omniReader,        \* driver: "null", "reader" or "connected"
    sample,              \* the last OnOmniData callback: its arguments and
                         \* the clock reading it took
    ticks,               \* driver: pose ticks of the visual tracker since its
                         \* validator last logged a verdict, up to MaxTick
    devices,             \* driver: m_device and m_visualTracker, each with
                         \* its m_unObjectId and how the runtime's last
                         \* Activate / Deactivate of it ended
    initializations      \* wrapper, layer: how often the body of the lazy
                         \* initialization has run in this process, up to
                         \* MaxInit

vars ==
    << module, configFile, g_initialized, g_realOpenVR, g_realIVRInput,
       g_realIVRSystem, Real_xr, g_config, s_library, s_reader, s_connected,
       g_treadmillState, g_actionNames, g_isMovementAction, host, ret,
       producer, reader, g_state, g_speedFactor, g_smoothingFactor, match,
       attached, m_omniReader, sample, ticks, devices, initializations >>

Wrapper == "TreadmillOpenVRWrapper"
Layer == "TreadmillOpenXRLayer"
Driver == "driver_treadmill"

\* struct TreadmillState with its member initializers
TreadmillState ==
    [ x |-> 0, y |-> 0, yaw |-> 0, active |-> FALSE,
      lastUpdateTime |-> 0, updateCount |-> 0 ]

\* struct XYState with its member initializers (the mutex is held only
\* inside one handler, so it is free between actions)
XYState ==
    [ x |-> 0, y |-> 0, yaw |-> 0,
      x_smoothed |-> 0, y_smoothed |-> 0, yaw_smoothed |-> 0,
      dataId |-> 0, logCounter |-> 0,
      lastHmdX |-> 0, lastHmdZ |-> 0, hmdInitialized |-> FALSE ]

NoCall == [site |-> "none"]
\* no callback yet; n counts the callbacks the hardware reader has made
NoSample == [n |-> 0]
\* no verdict within the last MaxTick pose ticks
NoTick == MaxTick
\* vr::k_unTrackedDeviceIndexInvalid (0xFFFFFFFF read as a signed index)
k_unTrackedDeviceIndexInvalid == -1
\* a device object as its constructor leaves it (TreadmillDevice.h 33, 51;
\* is_active_ = false, a member of TreadmillDevice only and left FALSE in
\* the tracker's record); activation records how the runtime's last Activate
\* or Deactivate of the device ended: "never", "ok", "failed", "deactivated"
Constructed ==
    [ exists |-> TRUE, m_unObjectId |-> k_unTrackedDeviceIndexInvalid,
      is_active_ |-> FALSE, activation |-> "never" ]
\* an empty std::unique_ptr
NullDevice == [Constructed EXCEPT !.exists = FALSE]
\* RunFrame's test of a device: the pointer is set and the object holds an
\* index other than k_unTrackedDeviceIndexInvalid
Published(device) ==
    device.exists /\ device.m_unObjectId # k_unTrackedDeviceIndexInvalid
\* a device whose Activate(unObjectId) returned VRInitError_None
Activated(unObjectId) ==
    [ exists |-> TRUE, m_unObjectId |-> unObjectId, is_active_ |-> TRUE,
      activation |-> "ok" ]
\* m_device and m_visualTracker before Init and after Cleanup
NoDevices == [m_device |-> NullDevice, m_visualTracker |-> NullDevice]
\* both devices added and activated by the runtime
BothActivated ==
    [ m_device |-> Activated(1),
      m_visualTracker |-> [Activated(2) EXCEPT !.is_active_ = FALSE] ]
Idle == [pc |-> "idle"]
EmptyMap == << >>

\* the process right after the loader has mapped the DLL (DLL_PROCESS_ATTACH
\* does not initialize anything)
Loaded(m, file) ==
    /\ module = m
    /\ configFile = file
    /\ g_initialized = FALSE
    /\ g_realOpenVR = FALSE
    /\ g_realIVRInput = FALSE
    /\ g_realIVRSystem = FALSE
    /\ Real_xr = FALSE
    /\ g_config = IF m = Layer THEN TreadmillLayer_Config
                  ELSE TreadmillWrapper_Config
    /\ s_library = "null"
    /\ s_reader = "null"
    /\ s_connected = FALSE
    /\ g_treadmillState = TreadmillState
    /\ g_actionNames = EmptyMap
    /\ g_isMovementAction = EmptyMap
    /\ host = [alive |-> FALSE, actions |-> EmptyMap]
    /\ ret = NoCall
    /\ producer = Idle
    /\ reader = Idle
    /\ g_state = XYState
    /\ g_speedFactor = 1000
    /\ g_smoothingFactor = 300
    /\ match = NoCall
    /\ attached = TRUE
    /\ m_omniReader = "null"
    /\ sample = NoSample
    /\ ticks = NoTick
    /\ devices = NoDevices
    /\ initializations = 0

Init ==
    \E m \in {Wrapper, Layer, Driver} :
        \E file \in (IF m = Driver THEN DriverSettings ELSE ConfigFiles) :
            Loaded(m, file)

\* ------------------------------------------------------------ OmniBridge
OmniOutcomes == {"noLibrary", "noFunctions", "createFailed", "initFailed", "ok"}

\* variant for C28: the connect failure forgets to release the library
OmniBridge_Initialize_keepsLibrary(outcome) ==
    IF outcome = "ok"
    THEN [s_library |-> "dll", s_reader |-> "reader",
          s_connected |-> TRUE, result |-> TRUE]
    ELSE IF outcome = "initFailed"
    THEN [s_library |-> "dll", s_reader |-> "null",
          s_connected |-> s_connected, result |-> FALSE]
    ELSE [s_library |-> "null", s_reader |-> s_reader,
          s_connected |-> s_connected, result |-> FALSE]

\* OmniBridge::Initialize: what it leaves in s_library, s_reader, s_connected
\* and returns, by the step at which the vendor DLL lets it down (the
\* layer's copy, treadmill_input.cpp 114-163, is the same)
OmniBridge_Initialize(outcome) ==
    IF outcome = "noLibrary"
    THEN [s_library |-> "null", s_reader |-> s_reader,
          s_connected |-> s_connected, result |-> FALSE]
    ELSE IF outcome = "noFunctions"
    THEN [s_library |-> "null", s_reader |-> s_reader,
          s_connected |-> s_connected, result |-> FALSE]
    ELSE IF outcome = "createFailed"
    THEN [s_library |-> "null", s_reader |-> "null",
          s_connected |-> s_connected, result |-> FALSE]
    ELSE IF outcome = "initFailed"
    THEN [s_library |-> "null", s_reader |-> "null",
          s_connected |-> s_connected, result |-> FALSE]
    ELSE [s_library |-> "dll", s_reader |-> "reader",
          s_connected |-> TRUE, result |-> TRUE]

\* OmniBridge::Shutdown (wrapper: s_connected first; layer: s_connected last)
OmniBridge_Shutdown ==
    [s_library |-> "null", s_reader |-> "null", s_connected |-> FALSE]

\* OmniBridge::IsConnected
OmniBridge_IsConnected == s_connected

\* ------------------------------------------------------------ ingest
\* OnOmniData's pad pipeline for one axis: deadzone, speed multiplier, clamp
ProcessAxis(v) ==
    clamp(Mul(ApplyDeadzone(v, g_config.deadzone), g_config.speedMultiplier),
          -Scale, Scale)

\* the values OnOmniData stores into x and y
SmoothedX(gamePadX) ==
    ApplySmoothing(g_treadmillState.x, ProcessAxis(Normalize(gamePadX)),
                   g_config.smoothing)

SmoothedY(gamePadY) ==
    ApplySmoothing(g_treadmillState.y, ProcessAxis(-Normalize(gamePadY)),
                   g_config.smoothing)

\* variant for C17: the increment is lost
fetch_add_lost(counter, arg) == counter

\* std::atomic<uint64_t>::fetch_add, the value it leaves in the counter
fetch_add(counter, arg) == counter + arg

\* OmniBridge::OnOmniData as one step (the layer's copy, treadmill_input.cpp
\* 81-112, is the same)
OmniBridge_OnOmniData(ringAngle, gamePadX, gamePadY, timestamp) ==
    /\ attached
    /\ module \in {Wrapper, Layer}
    /\ s_connected
    /\ producer.pc = "idle"
    /\ sample' = [ n |-> sample.n + 1, ringAngle |-> ringAngle,
                   gamePadX |-> gamePadX, gamePadY |-> gamePadY,
                   timestamp |-> timestamp ]
    /\ g_treadmillState' =
           [ x |-> SmoothedX(gamePadX),
             y |-> SmoothedY(gamePadY),
             yaw |-> ringAngle,
             active |-> TRUE,
             lastUpdateTime |-> timestamp,
             updateCount |-> fetch_add(g_treadmillState.updateCount, 1) ]
    /\ UNCHANGED << module, configFile, g_initialized, g_realOpenVR,
                    g_realIVRInput, g_realIVRSystem, Real_xr, g_config,
                    s_library, s_reader, s_connected, g_actionNames,
                    g_isMovementAction, host, ret, producer, reader, g_state,
                    g_speedFactor, g_smoothingFactor, match, attached,
                    m_omniReader, ticks, devices, initializations >>

\* driver_treadmill.cpp OnOmniData: the body runs under g_state.mtx
Driver_OnOmniData(ringAngle, gamePadX, gamePadY, timestamp) ==
    LET raw_x == clamp(Normalize(gamePadX), -Scale, Scale)
        raw_y == clamp(-Normalize(gamePadY), -Scale, Scale)
        alpha == g_smoothingFactor
        d0 == ringAngle - g_state.yaw_smoothed
        d1 == IF d0 > 180 * Scale THEN d0 - 360 * Scale ELSE d0
        yaw_diff == IF d1 < -180 * Scale THEN d1 + 360 * Scale ELSE d1
        y0 == g_state.yaw_smoothed + Mul(alpha, yaw_diff)
        y1 == IF y0 < 0 THEN y0 + 360 * Scale ELSE y0
        y2 == IF y1 >= 360 * Scale THEN y1 - 360 * Scale ELSE y1
    IN  /\ attached
        /\ module = Driver
        /\ m_omniReader = "connected"
        /\ sample' = [ n |-> sample.n + 1, ringAngle |-> ringAngle,
                       gamePadX |-> gamePadX, gamePadY |-> gamePadY,
                       timestamp |-> timestamp ]
        /\ g_state' =
               [ g_state EXCEPT
                   !.x = raw_x, !.y = raw_y, !.yaw = ringAngle,
                   !.x_smoothed = Mul(alpha, raw_x)
                                  + Mul(Scale - alpha, g_state.x_smoothed),
                   !.y_smoothed = Mul(alpha, raw_y)
                                  + Mul(Scale - alpha, g_state.y_smoothed),
                   !.yaw_smoothed = y2,
                   !.dataId = timestamp,
                   !.logCounter = g_state.logCounter + 1 ]
        /\ UNCHANGED << module, configFile, g_initialized, g_realOpenVR,
                        g_realIVRInput, g_realIVRSystem, Real_xr, g_config,
                        s_library, s_reader, s_connected, g_treadmillState,
                        g_actionNames, g_isMovementAction, host, ret,
                        producer, reader, g_speedFactor, g_smoothingFactor,
                        match, attached, m_omniReader, ticks, devices,
                        initializations >>

\* ------------------------------------------------------------ OpenVR wrapper
\* one more run of InitLogging and Config::Load, counted up to MaxInit
Counted(runs) == IF runs < MaxInit THEN runs + 1 ELSE runs

\* InitializeWrapper: realDll says whether openvr_api_original.dll loads and
\* yields its functions; outcome is what OmniBridge::Initialize meets
InitializeWrapper(realDll, outcome) ==
    IF g_initialized
    THEN UNCHANGED << g_config, g_realOpenVR, s_library, s_reader,
                      s_connected, g_initialized, initializations >>
    ELSE LET config == TreadmillWrapper_Config_Load(configFile)
             omni == OmniBridge_Initialize(outcome)
             connect == realDll /\ config.enabled
         IN  /\ g_config' = config
             /\ g_realOpenVR' = realDll
             /\ s_library' = IF connect THEN omni.s_library ELSE s_library
             /\ s_reader' = IF connect THEN omni.s_reader ELSE s_reader
             /\ s_connected' = IF connect THEN omni.s_connected
                               ELSE s_connected
             /\ g_initialized' = realDll
             /\ initializations' = Counted(initializations)

\* VR_InitInternal: lazy initialization, then the real VR_InitInternal
VR_InitInternal(realDll, outcome) ==
    /\ attached
    /\ module = Wrapper
    /\ ~host.alive
    /\ InitializeWrapper(realDll, outcome)
    /\ host' = IF g_realOpenVR' THEN [alive |-> TRUE, actions |-> EmptyMap]
               ELSE host
    /\ UNCHANGED << module, configFile, g_realIVRInput, g_realIVRSystem,
                    Real_xr, g_treadmillState, g_actionNames,
                    g_isMovementAction, ret, producer, reader, g_state,
                    g_speedFactor, g_smoothingFactor, match, attached,
                    m_omniReader, sample, ticks, devices >>

\* VR_ShutdownInternal: forwards to the real runtime, which drops its instance
VR_ShutdownInternal ==
    /\ attached
    /\ module = Wrapper
    /\ g_realOpenVR
    /\ host.alive
    /\ host' = [alive |-> FALSE, actions |-> EmptyMap]
    /\ UNCHANGED << module, configFile, g_initialized, g_realOpenVR,
                    g_realIVRInput, g_realIVRSystem, Real_xr, g_config,
                    s_library, s_reader, s_connected, g_treadmillState,
                    g_actionNames, g_isMovementAction, ret, producer, reader,
                    g_state, g_speedFactor, g_smoothingFactor, match,
                    attached, m_omniReader, sample, ticks, devices,
                    initializations >>

\* VR_GetGenericInterface: lazy initialization, then WrapIVRSystem or
\* WrapIVRInput around the interface the real runtime returns (none while
\* it has no instance)
VR_GetGenericInterface(pchInterfaceVersion, realDll, outcome) ==
    /\ attached
    /\ module = Wrapper
    /\ InitializeWrapper(realDll, outcome)
    /\ LET iface == g_realOpenVR' /\ host.alive
       IN  /\ g_realIVRSystem' =
                  IF iface /\ pchInterfaceVersion = "IVRSystem"
                  THEN TRUE ELSE g_realIVRSystem
           /\ g_realIVRInput' =
                  IF iface /\ pchInterfaceVersion = "IVRInput"
                  THEN TRUE ELSE g_realIVRInput
    /\ UNCHANGED << module, configFile, Real_xr, g_treadmillState,
                    g_actionNames, g_isMovementAction, host, ret, producer,
                    reader, g_state, g_speedFactor, g_smoothingFactor, match,
                    attached, m_omniReader, sample, ticks, devices >>

\* ShutdownWrapper, from DllMain(DLL_PROCESS_DETACH)
ShutdownWrapper ==
    /\ attached
    /\ module = Wrapper
    /\ s_library' = OmniBridge_Shutdown.s_library
    /\ s_reader' = OmniBridge_Shutdown.s_reader
    /\ s_connected' = OmniBridge_Shutdown.s_connected
    /\ g_realOpenVR' = FALSE
    /\ g_initialized' = FALSE
    /\ attached' = FALSE
    /\ UNCHANGED << module, configFile, g_realIVRInput, g_realIVRSystem,
                    Real_xr, g_config, g_treadmillState, g_actionNames,
                    g_isMovementAction, host, ret, producer, reader, g_state,
                    g_speedFactor, g_smoothingFactor, match, m_omniReader,
                    sample, ticks, devices, initializations >>

\* the loop of Wrapped_GetActionHandle / TreadmillLayer_xrCreateAction over
\* g_config.actionPatterns
isMovement(actionName, actionPatterns) ==
    \E i \in 1..Len(actionPatterns) : MatchesPattern(actionName, actionPatterns[i])

\* the real runtime's handle for a name: OpenVR hands out one handle per
\* action name, a new one for a name it has not seen in this instance
RealActionHandles(name) ==
    IF \E h \in DOMAIN host.actions : host.actions[h] = name
    THEN {h \in DOMAIN host.actions : host.actions[h] = name}
    ELSE Handles \ DOMAIN host.actions

\* Wrapped_GetActionHandle with the real call succeeding
Wrapped_GetActionHandle(pchActionName) ==
    /\ attached
    /\ module = Wrapper
    /\ g_realIVRInput
    /\ host.alive
    /\ \E pHandle \in RealActionHandles(pchActionName) :
        /\ host' = [host EXCEPT !.actions = (pHandle :> pchActionName) @@ @]
        /\ g_actionNames' = (pHandle :> pchActionName) @@ g_actionNames
        /\ g_isMovementAction' =
               (pHandle :> isMovement(pchActionName, g_config.actionPatterns))
               @@ g_isMovementAction
    /\ UNCHANGED << module, configFile, g_initialized, g_realOpenVR,
                    g_realIVRInput, g_realIVRSystem, Real_xr, g_config,
                    s_library, s_reader, s_connected, g_treadmillState, ret,
                    producer, reader, g_state, g_speedFactor,
                    g_smoothingFactor, match, attached, m_omniReader, sample,
                    ticks, devices, initializations >>

\* ------------------------------------------------------------ OpenXR layer
\* InitializeLayer
InitializeLayer(outcome) ==
    IF g_initialized
    THEN UNCHANGED << g_config, s_library, s_reader, s_connected,
                      g_initialized, initializations >>
    ELSE LET config == TreadmillLayer_Config_Load(configFile)
             omni == OmniBridge_Initialize(outcome)
         IN  /\ g_config' = config
             /\ s_library' = IF config.enabled THEN omni.s_library
                             ELSE s_library
             /\ s_reader' = IF config.enabled THEN omni.s_reader
                            ELSE s_reader
             /\ s_connected' = IF config.enabled THEN omni.s_connected
                               ELSE s_connected
             /\ g_initialized' = TRUE
             /\ initializations' = Counted(initializations)

\* xrNegotiateLoaderApiLayerInterface: the loader's first call into the layer
xrNegotiateLoaderApiLayerInterface(outcome) ==
    /\ attached
    /\ module = Layer
    /\ ~host.alive
    /\ InitializeLayer(outcome)
    /\ UNCHANGED << module, configFile, g_realOpenVR, g_realIVRInput,
                    g_realIVRSystem, Real_xr, g_treadmillState, g_actionNames,
                    g_isMovementAction, host, ret, producer, reader, g_state,
                    g_speedFactor, g_smoothingFactor, match, attached,
                    m_omniReader, sample, ticks, devices >>

\* TreadmillLayer_xrCreateApiLayerInstance with InitializeDispatchTable;
\* result is what the next layer's create function returns
TreadmillLayer_xrCreateApiLayerInstance(result) ==
    /\ attached
    /\ module = Layer
    /\ g_initialized
    /\ ~host.alive
    /\ host' = IF result = "XR_SUCCESS"
               THEN [alive |-> TRUE, actions |-> EmptyMap] ELSE host
    /\ Real_xr' = IF result = "XR_SUCCESS" THEN TRUE ELSE Real_xr
    /\ UNCHANGED << module, configFile, g_initialized, g_realOpenVR,
                    g_realIVRInput, g_realIVRSystem, g_config, s_library,
                    s_reader, s_connected, g_treadmillState, g_actionNames,
                    g_isMovementAction, ret, producer, reader, g_state,
                    g_speedFactor, g_smoothingFactor, match, attached,
                    m_omniReader, sample, ticks, devices, initializations >>

\* TreadmillLayer_xrCreateAction with the real call succeeding: the runtime
\* creates a new handle
TreadmillLayer_xrCreateAction(actionName) ==
    /\ attached
    /\ module = Layer
    /\ Real_xr
    /\ host.alive
    /\ \E action \in Handles \ DOMAIN host.actions :
        /\ host' = [host EXCEPT !.actions = (action :> actionName) @@ @]
        /\ g_actionNames' = (action :> actionName) @@ g_actionNames
        /\ g_isMovementAction' =
               (action :> isMovement(actionName, g_config.actionPatterns))
               @@ g_isMovementAction
    /\ UNCHANGED << module, configFile, g_initialized, g_realOpenVR,
                    g_realIVRInput, g_realIVRSystem, Real_xr, g_config,
                    s_library, s_reader, s_connected, g_treadmillState, ret,
                    producer, reader, g_state, g_speedFactor,
                    g_smoothingFactor, match, attached, m_omniReader, sample,
                    ticks, devices, initializations >>

\* TreadmillLayer_xrDestroyInstance
TreadmillLayer_xrDestroyInstance ==
    /\ attached
    /\ module = Layer
    /\ host.alive
    /\ g_actionNames' = EmptyMap
    /\ g_isMovementAction' = EmptyMap
    /\ host' = IF Real_xr THEN [alive |-> FALSE, actions |-> EmptyMap]
               ELSE host
    /\ UNCHANGED << module, configFile, g_initialized, g_realOpenVR,
                    g_realIVRInput, g_realIVRSystem, Real_xr, g_config,
                    s_library, s_reader, s_connected, g_treadmillState, ret,
                    producer, reader, g_state, g_speedFactor,
                    g_smoothingFactor, match, attached, m_omniReader, sample,
                    ticks, devices, initializations >>

\* ShutdownLayer, from DllMain(DLL_PROCESS_DETACH)
ShutdownLayer ==
    /\ attached
    /\ module = Layer
    /\ s_library' = OmniBridge_Shutdown.s_library
    /\ s_reader' = OmniBridge_Shutdown.s_reader
    /\ s_connected' = OmniBridge_Shutdown.s_connected
    /\ g_initialized' = FALSE
    /\ attached' = FALSE
    /\ UNCHANGED << module, configFile, g_realOpenVR, g_realIVRInput,
                    g_realIVRSystem, Real_xr, g_config, g_treadmillState,
                    g_actionNames, g_isMovementAction, host, ret, producer,
                    reader, g_state, g_speedFactor, g_smoothingFactor, match,
                    m_omniReader, sample, ticks, devices, initializations >>

\* ------------------------------------------------------------ SteamVR driver
\* TreadmillDevice::TreadmillDevice: the two tunables read from the settings
TreadmillDevice_speedFactor(settings) ==
    IF settings.exists /\ settings.speed_factor > 0
    THEN settings.speed_factor ELSE g_speedFactor

TreadmillDevice_smoothingFactor(settings) ==
    IF /\ settings.exists
       /\ settings.smoothing_factor >= 0
       /\ settings.smoothing_factor <= Scale
    THEN settings.smoothing_factor ELSE g_smoothingFactor

\* TreadmillServerDriver::Init: the devices are constructed only when the
\* vendor DLL and its five functions were found
TreadmillServerDriver_Init(outcome) ==
    /\ attached
    /\ module = Driver
    /\ ~host.alive
    /\ host' = [host EXCEPT !.alive = TRUE]
    /\ m_omniReader' =
           IF outcome \in {"noLibrary", "noFunctions", "createFailed"}
           THEN "null"
           ELSE IF outcome = "initFailed" THEN "reader" ELSE "connected"
    /\ g_speedFactor' =
           IF outcome \in {"noLibrary", "noFunctions"} THEN g_speedFactor
           ELSE TreadmillDevice_speedFactor(configFile)
    /\ g_smoothingFactor' =
           IF outcome \in {"noLibrary", "noFunctions"} THEN g_smoothingFactor
           ELSE TreadmillDevice_smoothingFactor(configFile)
    /\ devices' =
           IF outcome \in {"noLibrary", "noFunctions"} THEN devices
           ELSE [m_device |-> Constructed, m_visualTracker |-> Constructed]
    /\ UNCHANGED << module, configFile, g_initialized, g_realOpenVR,
                    g_realIVRInput, g_realIVRSystem, Real_xr, g_config,
                    s_library, s_reader, s_connected, g_treadmillState,
                    g_actionNames, g_isMovementAction, ret, producer, reader,
                    g_state, match, attached, sample, ticks, initializations >>

\* TreadmillServerDriver::Cleanup
TreadmillServerDriver_Cleanup ==
    /\ attached
    /\ module = Driver
    /\ host.alive
    /\ m_omniReader' = "null"
    /\ devices' = NoDevices
    /\ attached' = FALSE
    /\ UNCHANGED << module, configFile, g_initialized, g_realOpenVR,
                    g_realIVRInput, g_realIVRSystem, Real_xr, g_config,
                    s_library, s_reader, s_connected, g_treadmillState,
                    g_actionNames, g_isMovementAction, host, ret, producer,
                    reader, g_state, g_speedFactor, g_smoothingFactor, match,
                    sample, ticks, initializations >>

\* ------------------------------------------------------------ injection
\* the literal 0.05f every interception site compares against
ActivationThreshold == 50

\* variant for C6: a value at the threshold already counts as active
treadmillActive_atThreshold(treadmillX, treadmillY) ==
    IF Abs(treadmillX) >= ActivationThreshold THEN TRUE
    ELSE Abs(treadmillY) >= ActivationThreshold

\* bool treadmillActive of the two-axis sites
treadmillActive(treadmillX, treadmillY) ==
    IF Abs(treadmillX) > ActivationThreshold THEN TRUE
    ELSE Abs(treadmillY) > ActivationThreshold

\* variant for C8: a handle with no entry is taken for a movement action
IsMovementAction_unknownMoves(action) ==
    IF action \in DOMAIN g_isMovementAction THEN g_isMovementAction[action]
    ELSE TRUE

\* the lookup "it != g_isMovementAction.end() && it->second"
IsMovementAction(action) ==
    IF action \in DOMAIN g_isMovementAction THEN g_isMovementAction[action]
    ELSE FALSE

\* variant for C2: Override injects whether or not the treadmill is active
AnalogActionData_ungated(inputMode, pActionData, treadmillX, treadmillY) ==
    LET active == treadmillActive(treadmillX, treadmillY)
    IN  IF inputMode = "Override"
        THEN [value |-> <<treadmillX, treadmillY>>, active |-> TRUE]
        ELSE IF inputMode = "Additive"
        THEN [value |-> <<clamp(pActionData.value[1] + treadmillX,
                                -Scale, Scale),
                          clamp(pActionData.value[2] + treadmillY,
                                -Scale, Scale)>>,
              active |-> IF active THEN TRUE ELSE pActionData.active]
        ELSE IF active
             THEN [value |-> <<treadmillX, treadmillY>>, active |-> TRUE]
             ELSE pActionData

\* the switch of Wrapped_GetAnalogActionData on g_config.inputMode
AnalogActionData(inputMode, pActionData, treadmillX, treadmillY) ==
    LET active == treadmillActive(treadmillX, treadmillY)
    IN  IF inputMode = "Override"
        THEN IF active
             THEN [value |-> <<treadmillX, treadmillY>>, active |-> TRUE]
             ELSE pActionData
        ELSE IF inputMode = "Additive"
        THEN [value |-> <<clamp(pActionData.value[1] + treadmillX,
                                -Scale, Scale),
                          clamp(pActionData.value[2] + treadmillY,
                                -Scale, Scale)>>,
              active |-> IF active THEN TRUE ELSE pActionData.active]
        ELSE IF active
             THEN [value |-> <<treadmillX, treadmillY>>, active |-> TRUE]
             ELSE pActionData

\* Wrapped_GetAnalogActionData; data is what the real call leaves in
\* *pActionData, result what it returns
Wrapped_GetAnalogActionData(action, data, ulRestrictToDevice, result) ==
    /\ attached
    /\ module = Wrapper
    /\ g_realIVRInput
    /\ host.alive
    /\ LET applies == /\ result = "VRInputError_None"
                      /\ IsMovementAction(action)
                      /\ OmniBridge_IsConnected
           treadmillX == g_treadmillState.x
           treadmillY == g_treadmillState.y
       IN  ret' = [ site |-> "GetAnalogActionData",
                    action |-> action,
                    target |-> ulRestrictToDevice,
                    movement |-> IsMovementAction(action),
                    result |-> result,
                    connected |-> s_connected,
                    inputMode |-> g_config.inputMode,
                    current |-> data,
                    treadmill |-> <<treadmillX, treadmillY>>,
                    out |-> IF applies
                            THEN AnalogActionData(g_config.inputMode, data,
                                                  treadmillX, treadmillY)
                            ELSE data ]
    /\ UNCHANGED << module, configFile, g_initialized, g_realOpenVR,
                    g_realIVRInput, g_realIVRSystem, Real_xr, g_config,
                    s_library, s_reader, s_connected, g_treadmillState,
                    g_actionNames, g_isMovementAction, host, producer, reader,
                    g_state, g_speedFactor, g_smoothingFactor, match,
                    attached, m_omniReader, sample, ticks, devices,
                    initializations >>

\* the switch of Wrapped_GetControllerState on g_config.inputMode, with the
\* test on treadmillActive around it; VRControllerState_t has no active flag
ControllerState(inputMode, pControllerState, treadmillX, treadmillY) ==
    IF treadmillActive(treadmillX, treadmillY)
    THEN IF inputMode = "Override"
         THEN [value |-> <<treadmillX, treadmillY>>]
         ELSE IF inputMode = "Additive"
         THEN [value |-> <<clamp(pControllerState.value[1] + treadmillX,
                                 -Scale, Scale),
                           clamp(pControllerState.value[2] + treadmillY,
                                 -Scale, Scale)>>]
         ELSE [value |-> <<treadmillX, treadmillY>>]
    ELSE pControllerState

\* Wrapped_GetControllerState and Wrapped_GetControllerStateWithPose (lines
\* 208-255, the same body after the real call); state is the joystick axis
\* the real call leaves in *pControllerState
Wrapped_GetControllerState(site, unControllerDeviceIndex, state, result) ==
    /\ attached
    /\ module = Wrapper
    /\ g_realIVRSystem
    /\ host.alive
    /\ LET skipped == /\ g_config.targetControllerIndex >= 0
                      /\ unControllerDeviceIndex
                             # g_config.targetControllerIndex
           applies == result /\ OmniBridge_IsConnected /\ ~skipped
           treadmillX == g_treadmillState.x
           treadmillY == g_treadmillState.y
       IN  ret' = [ site |-> site,
                    target |-> unControllerDeviceIndex,
                    result |-> IF result THEN "true" ELSE "false",
                    connected |-> s_connected,
                    inputMode |-> g_config.inputMode,
                    current |-> state,
                    treadmill |-> <<treadmillX, treadmillY>>,
                    out |-> IF applies
                            THEN ControllerState(g_config.inputMode, state,
                                                 treadmillX, treadmillY)
                            ELSE state ]
    /\ UNCHANGED << module, configFile, g_initialized, g_realOpenVR,
                    g_realIVRInput, g_realIVRSystem, Real_xr, g_config,
                    s_library, s_reader, s_connected, g_treadmillState,
                    g_actionNames, g_isMovementAction, host, producer, reader,
                    g_state, g_speedFactor, g_smoothingFactor, match,
                    attached, m_omniReader, sample, ticks, devices,
                    initializations >>


\* the axis TreadmillLayer_xrGetActionStateFloat picks from the action's name
\* (0 when the handle has no name)
ForwardStr == <<"f","o","r","w","a","r","d">>
VerticalStr == <<"v","e","r","t","i","c","a","l">>

treadmillValue(action) ==
    IF action \in DOMAIN g_actionNames
    THEN LET name == g_actionNames[action]
         IN  IF find(name, ForwardStr) THEN g_treadmillState.y
             ELSE IF find(name, VerticalStr) THEN g_treadmillState.y
             ELSE IF find(name, <<"y">>) THEN g_treadmillState.y
             ELSE g_treadmillState.x
    ELSE 0

\* the switch of TreadmillLayer_xrGetActionStateFloat, with the test on
\* treadmillActive around it
ActionStateFloat(inputMode, state, value) ==
    IF Abs(value) > ActivationThreshold
    THEN IF inputMode = "Override"
         THEN [value |-> <<value>>, active |-> TRUE]
         ELSE IF inputMode = "Additive"
         THEN [value |-> <<clamp(state.value[1] + value, -Scale, Scale)>>,
               active |-> TRUE]
         ELSE [value |-> <<value>>, active |-> TRUE]
    ELSE state

XR_SUCCEEDED_any(result) == TRUE

\* the openxr.h macro, as the layer's reads use it on the real call's result
XR_SUCCEEDED(result) == result = "XR_SUCCESS"

\* TreadmillLayer_xrGetActionStateFloat; data is what the real call leaves
\* in *state (currentState, isActive), result what it returns
TreadmillLayer_xrGetActionStateFloat(action, subactionPath, data, result) ==
    /\ attached
    /\ module = Layer
    /\ Real_xr
    /\ host.alive
    /\ LET applies == /\ XR_SUCCEEDED(result)
                      /\ OmniBridge_IsConnected
                      /\ IsMovementAction(action)
           value == treadmillValue(action)
       IN  ret' = [ site |-> "xrGetActionStateFloat",
                    action |-> action,
                    target |-> subactionPath,
                    movement |-> IsMovementAction(action),
                    result |-> result,
                    connected |-> s_connected,
                    inputMode |-> g_config.inputMode,
                    current |-> data,
                    treadmill |-> <<value>>,
                    out |-> IF applies
                            THEN ActionStateFloat(g_config.inputMode, data,
                                                  value)
                            ELSE data ]
    /\ UNCHANGED << module, configFile, g_initialized, g_realOpenVR,
                    g_realIVRInput, g_realIVRSystem, Real_xr, g_config,
                    s_library, s_reader, s_connected, g_treadmillState,
                    g_actionNames, g_isMovementAction, host, producer, reader,
                    g_state, g_speedFactor, g_smoothingFactor, match,
                    attached, m_omniReader, sample, ticks, devices,
                    initializations >>

\* variant for C4: Smart adds to the host's value when the treadmill is
\* active instead of replacing it
ActionStateVector2f_smartAdds(inputMode, state, treadmillX, treadmillY) ==
    LET active == treadmillActive(treadmillX, treadmillY)
        sum == <<clamp(state.value[1] + treadmillX, -Scale, Scale),
                 clamp(state.value[2] + treadmillY, -Scale, Scale)>>
    IN  IF active
        THEN IF inputMode = "Override"
             THEN [value |-> <<treadmillX, treadmillY>>, active |-> TRUE]
             ELSE [value |-> sum, active |-> TRUE]
        ELSE IF inputMode = "Additive"
             THEN [value |-> sum, active |-> state.active]
             ELSE state

\* the switch of TreadmillLayer_xrGetActionStateVector2f, with the test
\* "treadmillActive || inputMode == Additive" around it
ActionStateVector2f(inputMode, state, treadmillX, treadmillY) ==
    LET active == treadmillActive(treadmillX, treadmillY)
    IN  IF active
        THEN IF inputMode = "Additive"
             THEN [value |-> <<clamp(state.value[1] + treadmillX,
                                     -Scale, Scale),
                               clamp(state.value[2] + treadmillY,
                                     -Scale, Scale)>>,
                   active |-> TRUE]
             ELSE [value |-> <<treadmillX, treadmillY>>, active |-> TRUE]
        ELSE IF inputMode = "Additive"
             THEN [value |-> <<clamp(state.value[1] + treadmillX,
                                     -Scale, Scale),
                               clamp(state.value[2] + treadmillY,
                                     -Scale, Scale)>>,
                   active |-> state.active]
             ELSE state

\* TreadmillLayer_xrGetActionStateVector2f
TreadmillLayer_xrGetActionStateVector2f(action, subactionPath, data, result) ==
    /\ attached
    /\ module = Layer
    /\ Real_xr
    /\ host.alive
    /\ LET applies == /\ XR_SUCCEEDED(result)
                      /\ OmniBridge_IsConnected
                      /\ IsMovementAction(action)
           treadmillX == g_treadmillState.x
           treadmillY == g_treadmillState.y
       IN  ret' = [ site |-> "xrGetActionStateVector2f",
                    action |-> action,
                    target |-> subactionPath,
                    movement |-> IsMovementAction(action),
                    result |-> result,
                    connected |-> s_connected,
                    inputMode |-> g_config.inputMode,
                    current |-> data,
                    treadmill |-> <<treadmillX, treadmillY>>,
                    out |-> IF applies
                            THEN ActionStateVector2f(g_config.inputMode, data,
                                                     treadmillX, treadmillY)
                            ELSE data ]
    /\ UNCHANGED << module, configFile, g_initialized, g_realOpenVR,
                    g_realIVRInput, g_realIVRSystem, Real_xr, g_config,
                    s_library, s_reader, s_connected, g_treadmillState,
                    g_actionNames, g_isMovementAction, host, producer, reader,
                    g_state, g_speedFactor, g_smoothingFactor, match,
                    attached, m_omniReader, sample, ticks, devices,
                    initializations >>

\* ------------------------------------------------------------ lifecycle
\* readings of std::chrono::steady_clock, which never goes back
steady_clock(last) == {t \in 1..MaxTime : t >= last}

\* readings of std::chrono::system_clock
system_clock == 1..MaxTime

\* a full-deflection sample, as the hardware reader delivers it
Sample ==
    /\ sample.n < MaxIngest
    /\ \E ringAngle \in RingAngles :
        \E timestamp \in steady_clock(g_treadmillState.lastUpdateTime) :
            OmniBridge_OnOmniData(ringAngle, 255, 127, timestamp)

DriverSample ==
    /\ sample.n < MaxIngest
    /\ \E ringAngle \in RingAngles, gamePadX \in PadValues :
        \E timestamp \in system_clock :
            Driver_OnOmniData(ringAngle, gamePadX, 127, timestamp)

WrapperInit ==
    \E realDll \in BOOLEAN, outcome \in OmniOutcomes :
        VR_InitInternal(realDll, outcome)

WrapperGetInterface ==
    \E pchInterfaceVersion \in {"IVRSystem", "IVRInput", "IVRCompositor"} :
        \E realDll \in BOOLEAN, outcome \in OmniOutcomes :
            VR_GetGenericInterface(pchInterfaceVersion, realDll, outcome)

WrapperGetActionHandle ==
    \E pchActionName \in ActionNames : Wrapped_GetActionHandle(pchActionName)

LayerNegotiate ==
    \E outcome \in OmniOutcomes : xrNegotiateLoaderApiLayerInterface(outcome)

LayerCreateInstance ==
    \E result \in {"XR_SUCCESS", "XR_ERROR_RUNTIME_FAILURE"} :
        TreadmillLayer_xrCreateApiLayerInstance(result)

LayerCreateAction ==
    \E actionName \in ActionNames : TreadmillLayer_xrCreateAction(actionName)

DriverInit ==
    \E outcome \in OmniOutcomes : TreadmillServerDriver_Init(outcome)

Next ==
    \/ WrapperInit
    \/ WrapperGetInterface
    \/ WrapperGetActionHandle
    \/ VR_ShutdownInternal
    \/ ShutdownWrapper
    \/ LayerNegotiate
    \/ LayerCreateInstance
    \/ LayerCreateAction
    \/ TreadmillLayer_xrDestroyInstance
    \/ ShutdownLayer
    \/ DriverInit
    \/ TreadmillServerDriver_Cleanup
    \/ Sample
    \/ DriverSample

Spec == Init /\ [][Next]_vars


\* ------------------------------------------------------------ injection runs
\* a process that has initialized, with the host's instance alive and its
\* interfaces wrapped; the treadmill connected or not
Initialized(m, file, connected) ==
    /\ module = m
    /\ configFile = file
    /\ g_initialized = TRUE
    /\ g_realOpenVR = (m = Wrapper)
    /\ g_realIVRInput = (m = Wrapper)
    /\ g_realIVRSystem = (m = Wrapper)
    /\ Real_xr = (m = Layer)
    /\ g_config = IF m = Layer THEN TreadmillLayer_Config_Load(file)
                  ELSE TreadmillWrapper_Config_Load(file)
    /\ s_library = IF connected THEN "dll" ELSE "null"
    /\ s_reader = IF connected THEN "reader" ELSE "null"
    /\ s_connected = connected
    /\ g_treadmillState = TreadmillState
    /\ g_actionNames = EmptyMap
    /\ g_isMovementAction = EmptyMap
    /\ host = [alive |-> TRUE, actions |-> EmptyMap]
    /\ ret = NoCall
    /\ producer = Idle
    /\ reader = Idle
    /\ g_state = XYState
    /\ g_speedFactor = 1000
    /\ g_smoothingFactor = 300
    /\ match = NoCall
    /\ attached = TRUE
    /\ m_omniReader = "null"
    /\ sample = NoSample
    /\ ticks = NoTick
    /\ devices = NoDevices
    /\ initializations = 1

InitPolicy ==
    \E m \in {Wrapper, Layer}, file \in ConfigFiles, connected \in BOOLEAN :
        Initialized(m, file, connected)

\* ret is only the record of the read the host is returning from: the runs
\* below let the host take it (HostReturn) before the next step
PolicySample ==
    /\ ret = NoCall
    /\ sample.n < MaxIngest
    /\ \E pad \in PadPairs :
           OmniBridge_OnOmniData(90 * Scale, pad[1], pad[2], MaxTime)

PolicyGetActionHandle ==
    /\ ret = NoCall
    /\ WrapperGetActionHandle

PolicyCreateAction ==
    /\ ret = NoCall
    /\ LayerCreateAction

\* a failing real call leaves the caller's zero-initialized structure as it is
Failed(data) == data.value \in {<<0>>, <<0, 0>>}

GetAnalogActionData ==
    /\ ret = NoCall
    /\ \E action \in Handles, data \in HostData, ulRestrictToDevice \in Devices :
           \/ Wrapped_GetAnalogActionData(action, data, ulRestrictToDevice,
                                          "VRInputError_None")
           \/ /\ Failed(data)
              /\ Wrapped_GetAnalogActionData(action, data, ulRestrictToDevice,
                                             "VRInputError_InvalidHandle")

GetControllerState ==
    /\ ret = NoCall
    /\ \E unControllerDeviceIndex \in Devices, state \in HostAxis :
           \/ Wrapped_GetControllerState("GetControllerState",
                                         unControllerDeviceIndex, state, TRUE)
           \/ /\ Failed(state)
              /\ Wrapped_GetControllerState("GetControllerState",
                                            unControllerDeviceIndex, state,
                                            FALSE)

GetControllerStateWithPose ==
    /\ ret = NoCall
    /\ \E unControllerDeviceIndex \in Devices, state \in HostAxis :
           \/ Wrapped_GetControllerState("GetControllerStateWithPose",
                                         unControllerDeviceIndex, state, TRUE)
           \/ /\ Failed(state)
              /\ Wrapped_GetControllerState("GetControllerStateWithPose",
                                            unControllerDeviceIndex, state,
                                            FALSE)

GetActionStateFloat ==
    /\ ret = NoCall
    /\ \E action \in Handles, subactionPath \in SubactionPaths :
           \E data \in HostFloat :
               \/ TreadmillLayer_xrGetActionStateFloat(
                      action, subactionPath, data, "XR_SUCCESS")
               \/ /\ Failed(data)
                  /\ TreadmillLayer_xrGetActionStateFloat(
                         action, subactionPath, data,
                         "XR_ERROR_HANDLE_INVALID")

GetActionStateVector2f ==
    /\ ret = NoCall
    /\ \E action \in Handles, subactionPath \in SubactionPaths :
           \E data \in HostData :
               \/ TreadmillLayer_xrGetActionStateVector2f(
                      action, subactionPath, data, "XR_SUCCESS")
               \/ /\ Failed(data)
                  /\ TreadmillLayer_xrGetActionStateVector2f(
                         action, subactionPath, data,
                         "XR_ERROR_HANDLE_INVALID")

\* the host takes the result of its read; it issues one read at a time
HostReturn ==
    /\ ret # NoCall
    /\ ret' = NoCall
    /\ UNCHANGED << module, configFile, g_initialized, g_realOpenVR,
                    g_realIVRInput, g_realIVRSystem, Real_xr, g_config,
                    s_library, s_reader, s_connected, g_treadmillState,
                    g_actionNames, g_isMovementAction, host, producer, reader,
                    g_state, g_speedFactor, g_smoothingFactor, match,
                    attached, m_omniReader, sample, ticks, devices,
                    initializations >>

NextPolicy ==
    \/ PolicySample
    \/ PolicyGetActionHandle
    \/ PolicyCreateAction
    \/ GetAnalogActionData
    \/ GetControllerState
    \/ GetControllerStateWithPose
    \/ GetActionStateFloat
    \/ GetActionStateVector2f
    \/ HostReturn

SpecPolicy == InitPolicy /\ [][NextPolicy]_vars


\* ------------------------------------------------------------ interleaving
\* OmniBridge::OnOmniData statement by statement: the hardware reader's thread
\* runs it while host threads are inside the wrapped reads.  Lines 31-57:
\* the sample is processed against prevX, prevY (only this thread writes them)
OnOmniData_compute(ringAngle, gamePadX, gamePadY, timestamp) ==
    /\ attached
    /\ module \in {Wrapper, Layer}
    /\ s_connected
    /\ producer.pc = "idle"
    /\ sample' = [ n |-> sample.n + 1, ringAngle |-> ringAngle,
                   gamePadX |-> gamePadX, gamePadY |-> gamePadY,
                   timestamp |-> timestamp ]
    /\ producer' = [ pc |-> "x.store",
                     smoothedX |-> SmoothedX(gamePadX),
                     smoothedY |-> SmoothedY(gamePadY),
                     ringAngle |-> ringAngle,
                     timestamp |-> timestamp ]
    /\ UNCHANGED << module, configFile, g_initialized, g_realOpenVR,
                    g_realIVRInput, g_realIVRSystem, Real_xr, g_config,
                    s_library, s_reader, s_connected, g_treadmillState,
                    g_actionNames, g_isMovementAction, host, ret, reader,
                    g_state, g_speedFactor, g_smoothingFactor, match,
                    attached, m_omniReader, ticks, devices, initializations >>

\* lines 59-64, one atomic store each
OnOmniData_store ==
    /\ producer.pc \in {"x.store", "y.store", "yaw.store",
                        "lastUpdateTime.store", "updateCount.fetch_add",
                        "active.store"}
    /\ g_treadmillState' =
           IF producer.pc = "x.store"
           THEN [g_treadmillState EXCEPT !.x = producer.smoothedX]
           ELSE IF producer.pc = "y.store"
           THEN [g_treadmillState EXCEPT !.y = producer.smoothedY]
           ELSE IF producer.pc = "yaw.store"
           THEN [g_treadmillState EXCEPT !.yaw = producer.ringAngle]
           ELSE IF producer.pc = "lastUpdateTime.store"
           THEN [g_treadmillState EXCEPT
                    !.lastUpdateTime = producer.timestamp]
           ELSE IF producer.pc = "updateCount.fetch_add"
           THEN [g_treadmillState EXCEPT !.updateCount = fetch_add(@, 1)]
           ELSE [g_treadmillState EXCEPT !.active = TRUE]
    /\ producer' =
           IF producer.pc = "x.store"
           THEN [producer EXCEPT !.pc = "y.store"]
           ELSE IF producer.pc = "y.store"
           THEN [producer EXCEPT !.pc = "yaw.store"]
           ELSE IF producer.pc = "yaw.store"
           THEN [producer EXCEPT !.pc = "lastUpdateTime.store"]
           ELSE IF producer.pc = "lastUpdateTime.store"
           THEN [producer EXCEPT !.pc = "updateCount.fetch_add"]
           ELSE IF producer.pc = "updateCount.fetch_add"
           THEN [producer EXCEPT !.pc = "active.store"]
           ELSE Idle
    /\ UNCHANGED << module, configFile, g_initialized, g_realOpenVR,
                    g_realIVRInput, g_realIVRSystem, Real_xr, g_config,
                    s_library, s_reader, s_connected, g_actionNames,
                    g_isMovementAction, host, ret, reader, g_state,
                    g_speedFactor, g_smoothingFactor, match, attached,
                    m_omniReader, sample, ticks, devices, initializations >>

\* the ingest (counted from 1; 0 is the initial state) whose store the
\* current value of x, of y comes from
xIngest ==
    g_treadmillState.updateCount
    + (IF producer.pc \in {"y.store", "yaw.store", "lastUpdateTime.store",
                           "updateCount.fetch_add"}
       THEN 1 ELSE 0)

yIngest ==
    g_treadmillState.updateCount
    + (IF producer.pc \in {"yaw.store", "lastUpdateTime.store",
                           "updateCount.fetch_add"}
       THEN 1 ELSE 0)

\* Wrapped_GetAnalogActionData statement by statement, lines 89-102: the
\* real call (which succeeds) and the tests that lead to the loads; a read
\* they turn away returns at once
GetAnalogActionData_call(action, data, ulRestrictToDevice) ==
    /\ attached
    /\ module = Wrapper
    /\ g_realIVRInput
    /\ host.alive
    /\ reader.pc = "idle"
    /\ IF IsMovementAction(action) /\ OmniBridge_IsConnected
       THEN /\ reader' = [ pc |-> "x.load", action |-> action,
                           pActionData |-> data,
                           target |-> ulRestrictToDevice ]
            /\ ret' = ret
       ELSE /\ reader' = reader
            /\ ret' = [ site |-> "GetAnalogActionData",
                        action |-> action,
                        target |-> ulRestrictToDevice,
                        movement |-> IsMovementAction(action),
                        result |-> "VRInputError_None",
                        connected |-> s_connected,
                        inputMode |-> g_config.inputMode,
                        current |-> data,
                        treadmill |-> <<g_treadmillState.x,
                                        g_treadmillState.y>>,
                        out |-> data ]
    /\ UNCHANGED << module, configFile, g_initialized, g_realOpenVR,
                    g_realIVRInput, g_realIVRSystem, Real_xr, g_config,
                    s_library, s_reader, s_connected, g_treadmillState,
                    g_actionNames, g_isMovementAction, host, producer,
                    g_state, g_speedFactor, g_smoothingFactor, match,
                    attached, m_omniReader, sample, ticks, devices,
                    initializations >>

\* line 103: treadmillX = g_treadmillState.x.load(); xFrom notes the ingest
\* the loaded value comes from
GetAnalogActionData_loadX ==
    /\ reader.pc = "x.load"
    /\ reader' = [ pc |-> "y.load", action |-> reader.action,
                   pActionData |-> reader.pActionData,
                   target |-> reader.target,
                   treadmillX |-> g_treadmillState.x, xFrom |-> xIngest ]
    /\ UNCHANGED << module, configFile, g_initialized, g_realOpenVR,
                    g_realIVRInput, g_realIVRSystem, Real_xr, g_config,
                    s_library, s_reader, s_connected, g_treadmillState,
                    g_actionNames, g_isMovementAction, host, ret, producer,
                    g_state, g_speedFactor, g_smoothingFactor, match,
                    attached, m_omniReader, sample, ticks, devices,
                    initializations >>

\* line 104: treadmillY = g_treadmillState.y.load()
GetAnalogActionData_loadY ==
    /\ reader.pc = "y.load"
    /\ reader' = [ pc |-> "switch", action |-> reader.action,
                   pActionData |-> reader.pActionData,
                   target |-> reader.target,
                   treadmillX |-> reader.treadmillX, xFrom |-> reader.xFrom,
                   treadmillY |-> g_treadmillState.y, yFrom |-> yIngest ]
    /\ UNCHANGED << module, configFile, g_initialized, g_realOpenVR,
                    g_realIVRInput, g_realIVRSystem, Real_xr, g_config,
                    s_library, s_reader, s_connected, g_treadmillState,
                    g_actionNames, g_isMovementAction, host, ret, producer,
                    g_state, g_speedFactor, g_smoothingFactor, match,
                    attached, m_omniReader, sample, ticks, devices,
                    initializations >>

\* lines 105-142: the decision on the two loaded values, and the return
GetAnalogActionData_switch ==
    /\ reader.pc = "switch"
    /\ ret' = [ site |-> "GetAnalogActionData",
                action |-> reader.action,
                target |-> reader.target,
                movement |-> TRUE,
                result |-> "VRInputError_None",
                connected |-> TRUE,
                inputMode |-> g_config.inputMode,
                current |-> reader.pActionData,
                treadmill |-> <<reader.treadmillX, reader.treadmillY>>,
                out |-> AnalogActionData(g_config.inputMode,
                                         reader.pActionData,
                                         reader.treadmillX,
                                         reader.treadmillY) ]
    /\ reader' = Idle
    /\ UNCHANGED << module, configFile, g_initialized, g_realOpenVR,
                    g_realIVRInput, g_realIVRSystem, Real_xr, g_config,
                    s_library, s_reader, s_connected, g_treadmillState,
                    g_actionNames, g_isMovementAction, host, producer,
                    g_state, g_speedFactor, g_smoothingFactor, match,
                    attached, m_omniReader, sample, ticks, devices,
                    initializations >>

\* an initialized, connected wrapper whose host has registered one movement
\* action
InitRace ==
    \E file \in ConfigFiles :
        /\ module = Wrapper
        /\ configFile = file
        /\ g_initialized = TRUE
        /\ g_realOpenVR = TRUE
        /\ g_realIVRInput = TRUE
        /\ g_realIVRSystem = TRUE
        /\ Real_xr = FALSE
        /\ g_config = TreadmillWrapper_Config_Load(file)
        /\ s_library = "dll"
        /\ s_reader = "reader"
        /\ s_connected = TRUE
        /\ g_treadmillState = TreadmillState
        /\ g_actionNames = (1 :> Move)
        /\ g_isMovementAction = (1 :> isMovement(Move, DefaultPatterns))
        /\ host = [alive |-> TRUE, actions |-> (1 :> Move)]
        /\ ret = NoCall
        /\ producer = Idle
        /\ reader = Idle
        /\ g_state = XYState
        /\ g_speedFactor = 1000
        /\ g_smoothingFactor = 300
        /\ match = NoCall
        /\ attached = TRUE
        /\ m_omniReader = "null"
        /\ sample = NoSample
        /\ ticks = NoTick
        /\ devices = NoDevices
        /\ initializations = 1

RaceSample ==
    /\ sample.n < MaxIngest
    /\ \E pad \in {<<254, 150>>, <<127, 0>>} :
           OnOmniData_compute(90 * Scale, pad[1], pad[2], MaxTime)

RaceCall ==
    /\ ret = NoCall
    /\ \E action \in Handles, data \in HostData :
           GetAnalogActionData_call(action, data, 1)

NextRace ==
    \/ RaceSample
    \/ OnOmniData_store
    \/ RaceCall
    \/ GetAnalogActionData_loadX
    \/ GetAnalogActionData_loadY
    \/ GetAnalogActionData_switch
    \/ HostReturn

SpecRace == InitRace /\ [][NextRace]_vars


\* ------------------------------------------------------------ signal engine
\* OmniBridge::OnOmniData statement by statement in the hardware reader's
\* thread, the locals x and y in its frame.  Lines 31-38: the timestamp and
\* the normalization
OnOmniData_normalize(ringAngle, gamePadX, gamePadY, timestamp) ==
    /\ attached
    /\ module \in {Wrapper, Layer}
    /\ s_connected
    /\ producer.pc = "idle"
    /\ sample' = [ n |-> sample.n + 1, ringAngle |-> ringAngle,
                   gamePadX |-> gamePadX, gamePadY |-> gamePadY,
                   timestamp |-> timestamp ]
    /\ producer' = [ pc |-> "ApplyDeadzone",
                     x |-> Normalize(gamePadX),
                     y |-> -Normalize(gamePadY),
                     ringAngle |-> ringAngle,
                     timestamp |-> timestamp ]
    /\ UNCHANGED << module, configFile, g_initialized, g_realOpenVR,
                    g_realIVRInput, g_realIVRSystem, Real_xr, g_config,
                    s_library, s_reader, s_connected, g_treadmillState,
                    g_actionNames, g_isMovementAction, host, ret, reader,
                    g_state, g_speedFactor, g_smoothingFactor, match,
                    attached, m_omniReader, ticks, devices, initializations >>

\* lines 40-42
OnOmniData_deadzone ==
    /\ producer.pc = "ApplyDeadzone"
    /\ producer' = [ producer EXCEPT
                       !.pc = "speedMultiplier",
                       !.x = ApplyDeadzone(@, g_config.deadzone),
                       !.y = ApplyDeadzone(@, g_config.deadzone) ]
    /\ UNCHANGED << module, configFile, g_initialized, g_realOpenVR,
                    g_realIVRInput, g_realIVRSystem, Real_xr, g_config,
                    s_library, s_reader, s_connected, g_treadmillState,
                    g_actionNames, g_isMovementAction, host, ret, reader,
                    g_state, g_speedFactor, g_smoothingFactor, match,
                    attached, m_omniReader, sample, ticks, devices,
                    initializations >>

\* lines 44-50: the speed multiplier and the clamp
OnOmniData_clamp ==
    /\ producer.pc = "speedMultiplier"
    /\ producer' = [ producer EXCEPT
                       !.pc = "ApplySmoothing",
                       !.x = clamp(Mul(@, g_config.speedMultiplier),
                                   -Scale, Scale),
                       !.y = clamp(Mul(@, g_config.speedMultiplier),
                                   -Scale, Scale) ]
    /\ UNCHANGED << module, configFile, g_initialized, g_realOpenVR,
                    g_realIVRInput, g_realIVRSystem, Real_xr, g_config,
                    s_library, s_reader, s_connected, g_treadmillState,
                    g_actionNames, g_isMovementAction, host, ret, reader,
                    g_state, g_speedFactor, g_smoothingFactor, match,
                    attached, m_omniReader, sample, ticks, devices,
                    initializations >>

\* lines 52-57: prevX, prevY and the two smoothed values; the stores follow
\* (OnOmniData_store)
OnOmniData_smooth ==
    /\ producer.pc = "ApplySmoothing"
    /\ producer' = [ pc |-> "x.store",
                     smoothedX |-> ApplySmoothing(g_treadmillState.x,
                                                  producer.x,
                                                  g_config.smoothing),
                     smoothedY |-> ApplySmoothing(g_treadmillState.y,
                                                  producer.y,
                                                  g_config.smoothing),
                     ringAngle |-> producer.ringAngle,
                     timestamp |-> producer.timestamp ]
    /\ UNCHANGED << module, configFile, g_initialized, g_realOpenVR,
                    g_realIVRInput, g_realIVRSystem, Real_xr, g_config,
                    s_library, s_reader, s_connected, g_treadmillState,
                    g_actionNames, g_isMovementAction, host, ret, reader,
                    g_state, g_speedFactor, g_smoothingFactor, match,
                    attached, m_omniReader, sample, ticks, devices,
                    initializations >>

\* the driver after TreadmillServerDriver::Init has connected the reader and
\* constructed the devices
DriverInitialized(settings) ==
    /\ module = Driver
    /\ configFile = settings
    /\ g_initialized = FALSE
    /\ g_realOpenVR = FALSE
    /\ g_realIVRInput = FALSE
    /\ g_realIVRSystem = FALSE
    /\ Real_xr = FALSE
    /\ g_config = TreadmillWrapper_Config
    /\ s_library = "null"
    /\ s_reader = "null"
    /\ s_connected = FALSE
    /\ g_treadmillState = TreadmillState
    /\ g_actionNames = EmptyMap
    /\ g_isMovementAction = EmptyMap
    /\ host = [alive |-> TRUE, actions |-> EmptyMap]
    /\ ret = NoCall
    /\ producer = Idle
    /\ reader = Idle
    /\ g_state = XYState
    /\ g_speedFactor = IF settings.exists /\ settings.speed_factor > 0
                       THEN settings.speed_factor ELSE 1000
    /\ g_smoothingFactor = IF /\ settings.exists
                              /\ settings.smoothing_factor >= 0
                              /\ settings.smoothing_factor <= Scale
                           THEN settings.smoothing_factor ELSE 300
    /\ match = NoCall
    /\ attached = TRUE
    /\ m_omniReader = "connected"
    /\ sample = NoSample
    /\ ticks = NoTick
    /\ devices = BothActivated
    /\ initializations = 0

\* configuration files for the engine runs: the defaults, a speed multiplier
\* below 1, no deadzone, a wide deadzone
EngineConfigFiles ==
    { [exists |-> FALSE],
      [exists |-> TRUE, speedMultiplier |-> 500],
      [exists |-> TRUE, deadzone |-> 0, speedMultiplier |-> 1000,
       smoothing |-> 500],
      [exists |-> TRUE, deadzone |-> 500, smoothing |-> 900] }

\* pad bytes (gamePadX, gamePadY): both ends, the centre and its neighbours,
\* 254 (exactly full scale), a partial deflection
EnginePads ==
    { <<127, 127>>, <<255, 127>>, <<0, 255>>, <<254, 0>>, <<128, 126>>,
      <<150, 100>> }

InitEngine ==
    \/ \E m \in {Wrapper, Layer}, file \in EngineConfigFiles :
           Initialized(m, file, TRUE)
    \/ \E settings \in DriverSettings : DriverInitialized(settings)

EngineSample ==
    /\ sample.n < MaxIngest
    /\ \E pad \in EnginePads :
           \E timestamp \in steady_clock(g_treadmillState.lastUpdateTime) :
               OnOmniData_normalize(90 * Scale, pad[1], pad[2], timestamp)

EngineDriverSample ==
    /\ sample.n < MaxIngest
    /\ \E pad \in EnginePads, timestamp \in system_clock :
           Driver_OnOmniData(90 * Scale, pad[1], pad[2], timestamp)

NextEngine ==
    \/ EngineSample
    \/ OnOmniData_deadzone
    \/ OnOmniData_clamp
    \/ OnOmniData_smooth
    \/ OnOmniData_store
    \/ EngineDriverSample

SpecEngine == InitEngine /\ [][NextEngine]_vars


\* ------------------------------------------------------------ convergence runs
\* the hardware reader delivers MaxIngest samples of any kind and then keeps
\* delivering the last one, MaxSettle times
MaxSettle == 20

SettlingPads ==
    IF sample.n < MaxIngest THEN EnginePads
    ELSE {<<sample.gamePadX, sample.gamePadY>>}

ConvergeSample ==
    /\ sample.n < MaxIngest + MaxSettle
    /\ \E pad \in SettlingPads :
           OmniBridge_OnOmniData(90 * Scale, pad[1], pad[2], MaxTime)

ConvergeDriverSample ==
    /\ sample.n < MaxIngest + MaxSettle
    /\ \E pad \in SettlingPads :
           Driver_OnOmniData(90 * Scale, pad[1], pad[2], MaxTime)

NextConverge ==
    \/ ConvergeSample
    \/ ConvergeDriverSample

\* the reader's thread keeps calling back while the device is connected
SpecConverge == InitEngine /\ [][NextConverge]_vars /\ WF_vars(NextConverge)


\* ------------------------------------------------------------ yaw runs
\* ring angles in degrees: inside [0,360), just outside it on either side,
\* and ten turns (the callback takes any float)
YawAngles ==
    {0, 10 * Scale, 90 * Scale, 350 * Scale, 370 * Scale, -90 * Scale,
     3600 * Scale}

YawSample ==
    /\ sample.n < MaxIngest
    /\ \E ringAngle \in YawAngles :
           OmniBridge_OnOmniData(ringAngle, 127, 127, MaxTime)

DriverYawSample ==
    /\ sample.n < MaxIngest
    /\ \E ringAngle \in YawAngles :
           Driver_OnOmniData(ringAngle, 127, 127, MaxTime)

NextYaw ==
    \/ YawSample
    \/ DriverYawSample

SpecYaw == InitEngine /\ [][NextYaw]_vars


\* ------------------------------------------------------------ trigonometry
\* std::sin of the whole degrees 0..90, scaled
SinTable ==
    << 0, 17, 35, 52, 70, 87, 105, 122, 139, 156, 174, 191, 208, 225, 242,
       259, 276, 292, 309, 326, 342, 358, 375, 391, 407, 423, 438, 454, 469,
       485, 500, 515, 530, 545, 559, 574, 588, 602, 616, 629, 643, 656, 669,
       682, 695, 707, 719, 731, 743, 755, 766, 777, 788, 799, 809, 819, 829,
       839, 848, 857, 866, 875, 883, 891, 899, 906, 914, 921, 927, 934, 940,
       946, 951, 956, 961, 966, 970, 974, 978, 982, 985, 988, 990, 993, 995,
       996, 998, 999, 999, 1000, 1000 >>

\* an angle in scaled degrees, to the nearest whole degree in 0..359
WholeDegree(angle) == ((angle + Scale \div 2) \div Scale) % 360

\* std::sin and std::cos of an angle given in scaled degrees (the code
\* multiplies by DEG2RAD first), at the resolution of one degree
Sin(angle) ==
    LET d == WholeDegree(angle)
    IN  IF d <= 90 THEN SinTable[d + 1]
        ELSE IF d <= 180 THEN SinTable[180 - d + 1]
        ELSE IF d <= 270 THEN -SinTable[d - 180 + 1]
        ELSE -SinTable[360 - d + 1]

Cos(angle) == Sin(angle + 90 * Scale)

\* std::acos(dot) * 180 / pi for dot in [-1,1], in scaled whole degrees
\* (acos(-d) = 180 - acos(d))
ACos(dot) ==
    LET acute(d) == CHOOSE a \in 0..90 :
                        /\ Cos(a * Scale) <= d
                        /\ \A b \in 0..(a - 1) : Cos(b * Scale) > d
    IN  IF dot >= 0 THEN Scale * acute(dot)
        ELSE Scale * (180 - acute(-dot))

\* std::sqrt of the sum of two squares of scaled values, truncated
Hypot(a, b) ==
    CHOOSE r \in 0..(Abs(a) + Abs(b)) :
        /\ r * r <= a * a + b * b
        /\ (r + 1) * (r + 1) > a * a + b * b

\* ------------------------------------------------------------ driver frames
\* 'logCounter % 50 == 0': the period of the driver's unified logging and of
\* the direction validator
LogPeriod == 50

\* GetRawTrackedDevicePoses: the HMD pose the runtime reports, position in
\* metres (m[0][3], m[1][3], m[2][3])
HmdPoses ==
    { [bPoseIsValid |-> FALSE, x |-> 0, y |-> 0, z |-> 0],
      [bPoseIsValid |-> TRUE, x |-> 0, y |-> 1700, z |-> 0],
      [bPoseIsValid |-> TRUE, x |-> 100, y |-> 1700, z |-> 0] }

\* TreadmillVisualTracker::GetPose, "MOVEMENT ANALYSIS": the joystick rotated
\* into world coordinates by the smoothed yaw
ExpectedWorld(rawYaw, joystickX, joystickY) ==
    LET sinYaw == Sin(rawYaw)
        cosYaw == Cos(rawYaw)
    IN  << Mul(joystickX, cosYaw) - Mul(joystickY, sinYaw),
           Mul(joystickX, sinYaw) + Mul(joystickY, cosYaw) >>

\* TreadmillVisualTracker::GetPose, "MOVEMENT ANALYSIS": how far the
\* validator gets with one frame.  It only logs.
DirectionValidator(state, hmdPose, logCounter, rawYaw, joystickX, joystickY) ==
    LET actualDeltaX == hmdPose.x - state.lastHmdX
        actualDeltaZ == hmdPose.z - state.lastHmdZ
        actualDistance == Hypot(actualDeltaX, actualDeltaZ)
        expected == ExpectedWorld(rawYaw, joystickX, joystickY)
        expectedLength == Hypot(expected[1], expected[2])
    IN  IF ~(/\ hmdPose.bPoseIsValid
             /\ state.hmdInitialized
             /\ logCounter % LogPeriod = 0)
        THEN "skipped"
        ELSE IF ~(actualDistance > 50) THEN "no movement"
        ELSE IF ~(expectedLength > 10) THEN "no expectation"
        ELSE "compared"

\* the normalized actual direction of the headset's movement since the
\* stored position
ActualDir(state, hmdPose) ==
    LET actualDeltaX == hmdPose.x - state.lastHmdX
        actualDeltaZ == hmdPose.z - state.lastHmdZ
        actualDistance == Hypot(actualDeltaX, actualDeltaZ)
    IN  << Div(actualDeltaX * Scale, actualDistance),
           Div(actualDeltaZ * Scale, actualDistance) >>

\* the normalized expected direction
ExpectedDir(rawYaw, joystickX, joystickY) ==
    LET expected == ExpectedWorld(rawYaw, joystickX, joystickY)
        expectedLength == Hypot(expected[1], expected[2])
    IN  << Div(expected[1] * Scale, expectedLength),
           Div(expected[2] * Scale, expectedLength) >>

\* the angle between the actual and the expected direction
AngleDiff(actualDir, expectedDir) ==
    LET dotProduct == clamp(Mul(actualDir[1], expectedDir[1])
                            + Mul(actualDir[2], expectedDir[2]),
                            -Scale, Scale)
    IN  ACos(dotProduct)

\* the line the validator logs once both vectors are long enough
\* ("compared"): "WARNING on large deviation (>5 degrees)"
DirectionReport(state, hmdPose, logCounter, rawYaw, joystickX, joystickY) ==
    IF DirectionValidator(state, hmdPose, logCounter, rawYaw,
                          joystickX, joystickY) # "compared"
    THEN [line |-> "none"]
    ELSE LET actualDir == ActualDir(state, hmdPose)
             expectedDir == ExpectedDir(rawYaw, joystickX, joystickY)
             angleDiff == AngleDiff(actualDir, expectedDir)
         IN  [ line |-> IF angleDiff > 5 * Scale
                        THEN "DIRECTION MISMATCH!" ELSE "Direction OK",
               angleDiff |-> angleDiff,
               actual |-> actualDir,
               expected |-> expectedDir ]

StoreHmd_resetsYaw(state, hmdPose) ==
    IF hmdPose.bPoseIsValid
    THEN [state EXCEPT !.lastHmdX = hmdPose.x, !.lastHmdZ = hmdPose.z,
                       !.hmdInitialized = TRUE, !.yaw_smoothed = 0]
    ELSE state

\* TreadmillVisualTracker::GetPose, "Store current position for next frame"
StoreHmd(state, hmdPose) ==
    IF hmdPose.bPoseIsValid
    THEN [state EXCEPT !.lastHmdX = hmdPose.x, !.lastHmdZ = hmdPose.z,
                       !.hmdInitialized = TRUE]
    ELSE state

\* TreadmillServerDriver::RunFrame calls the three methods below in this
\* order; reader is the runtime's thread inside RunFrame.  Each method takes
\* g_state.mtx for its reads, so a callback can run between two of them.
\* ret is what the method hands to the runtime.
TreadmillDevice_UpdateInputs ==
    LET x == g_state.x_smoothed
        y == g_state.y_smoothed
        factor == g_speedFactor
        sx == clamp(Mul(x, factor), -Scale, Scale)
        sy == clamp(Mul(y, factor), -Scale, Scale)
    IN  /\ attached
        /\ module = Driver
        /\ host.alive
        /\ reader = Idle
        /\ ret = NoCall
        /\ Published(devices.m_device)
        /\ ret' = IF devices.m_device.is_active_
                  THEN [ site |-> "UpdateScalarComponent",
                         sx |-> sx, sy |-> sy,
                         logged |-> (g_state.logCounter % LogPeriod = 0) ]
                  ELSE ret
        /\ reader' = [pc |-> "TreadmillDevice::GetPose"]
        /\ UNCHANGED << module, configFile, g_initialized, g_realOpenVR,
                        g_realIVRInput, g_realIVRSystem, Real_xr, g_config,
                        s_library, s_reader, s_connected, g_treadmillState,
                        g_actionNames, g_isMovementAction, host, producer,
                        g_state, g_speedFactor, g_smoothingFactor, match,
                        attached, m_omniReader, sample, ticks, devices,
                        initializations >>

\* the quaternion is (cos(theta/2), 0, -sin(theta/2), 0) of the yaw below
TreadmillDevice_GetPose ==
    /\ attached
    /\ module = Driver
    /\ reader = [pc |-> "TreadmillDevice::GetPose"]
    /\ ret = NoCall
    /\ ret' = [ site |-> "TreadmillDevice::GetPose",
                rawYaw |-> g_state.yaw_smoothed, dataId |-> g_state.dataId,
                vecPosition |-> <<0, 0, 0>> ]
    /\ reader' = [pc |-> "TreadmillVisualTracker::GetPose"]
    /\ UNCHANGED << module, configFile, g_initialized, g_realOpenVR,
                    g_realIVRInput, g_realIVRSystem, Real_xr, g_config,
                    s_library, s_reader, s_connected, g_treadmillState,
                    g_actionNames, g_isMovementAction, host, producer,
                    g_state, g_speedFactor, g_smoothingFactor, match,
                    attached, m_omniReader, sample, ticks, devices,
                    initializations >>

TreadmillVisualTracker_GetPose(hmdPose) ==
    LET rawYaw == g_state.yaw_smoothed
        logCounter == g_state.logCounter
        joystickX == g_state.x_smoothed
        joystickY == g_state.y_smoothed
    IN  /\ attached
        /\ module = Driver
        /\ reader = [pc |-> "TreadmillVisualTracker::GetPose"]
        /\ ret = NoCall
        /\ Published(devices.m_visualTracker)
        /\ ret' = [ site |-> "TreadmillVisualTracker::GetPose",
                    rawYaw |-> rawYaw, dataId |-> g_state.dataId,
                    vecPosition |->
                        IF hmdPose.bPoseIsValid
                        THEN <<hmdPose.x, hmdPose.y - 300, hmdPose.z - 500>>
                        ELSE <<0, 1200, -500>>,
                    validator |->
                        DirectionValidator(g_state, hmdPose, logCounter,
                                           rawYaw, joystickX, joystickY),
                    report |->
                        DirectionReport(g_state, hmdPose, logCounter,
                                        rawYaw, joystickX, joystickY) ]
        /\ g_state' = StoreHmd(g_state, hmdPose)
        /\ reader' = Idle
        /\ ticks' = IF ret'.report.line # "none" THEN 0
                     ELSE IF ticks < MaxTick THEN ticks + 1 ELSE ticks
        /\ UNCHANGED << module, configFile, g_initialized, g_realOpenVR,
                        g_realIVRInput, g_realIVRSystem, Real_xr, g_config,
                        s_library, s_reader, s_connected, g_treadmillState,
                        g_actionNames, g_isMovementAction, host, producer,
                        g_speedFactor, g_smoothingFactor, match, attached,
                        m_omniReader, sample, devices, initializations >>

\* the argument of a debug request as std::stof takes it: a number, or
\* text that makes stof throw
DebugArgs ==
    { [numeric |-> FALSE, v |-> 0],
      [numeric |-> TRUE, v |-> -500],
      [numeric |-> TRUE, v |-> 0],
      [numeric |-> TRUE, v |-> 500],
      [numeric |-> TRUE, v |-> 2000] }

DebugCommands == {"", "debug", "speed", "smoothing", "reset"}

ValidSpeed_any(v) == TRUE

\* TreadmillDevice::DebugRequest, "speed": 'if (v > 0.0f)'
ValidSpeed(v) == v > 0

\* TreadmillDevice::DebugRequest, "smoothing": 'if (v >= 0.0f && v <= 1.0f)'
ValidSmoothing(v) == v >= 0 /\ v <= Scale

\* TreadmillDevice::DebugRequest: cmd is the first word of the trimmed
\* request, lower-cased; g_debug only switches the logging
TreadmillDevice_DebugRequest(cmd, arg) ==
    LET speedOk == cmd = "speed" /\ arg.numeric /\ ValidSpeed(arg.v)
        smoothingOk ==
            cmd = "smoothing" /\ arg.numeric /\ ValidSmoothing(arg.v)
    IN  /\ attached
        /\ module = Driver
        /\ host.alive
        /\ ret = NoCall
        /\ g_speedFactor' = IF speedOk THEN arg.v ELSE g_speedFactor
        /\ g_smoothingFactor' =
               IF smoothingOk THEN arg.v ELSE g_smoothingFactor
        /\ ret' = [ site |-> "TreadmillDevice::DebugRequest",
                    response |->
                        IF cmd = "" THEN <<"No request">>
                        ELSE IF cmd = "debug" THEN <<"DEBUG=">>
                        ELSE IF speedOk THEN <<"SPEED=", arg.v>>
                        ELSE IF cmd = "speed" THEN <<"Invalid SPEED">>
                        ELSE IF smoothingOk THEN <<"SMOOTHING=", arg.v>>
                        ELSE IF cmd = "smoothing"
                        THEN <<"Invalid SMOOTHING (0.0-1.0)">>
                        ELSE <<"Unknown command">> ]
        /\ UNCHANGED << module, configFile, g_initialized, g_realOpenVR,
                        g_realIVRInput, g_realIVRSystem, Real_xr, g_config,
                        s_library, s_reader, s_connected, g_treadmillState,
                        g_actionNames, g_isMovementAction, host, producer,
                        reader, g_state, match, attached, m_omniReader, sample,
                        ticks, devices, initializations >>

\* ------------------------------------------------------------ activation
\* the index the runtime hands to Activate; the runtime calls Activate and
\* Deactivate from the thread that calls RunFrame, so between two frames
DeviceIndexes == {1, 2}

\* TreadmillDevice::Activate: is_active_ and m_unObjectId are stored before
\* the VRProperties() test, whose failure returns VRInitError_Driver_Failed
TreadmillDevice_Activate(unObjectId, VRProperties) ==
    /\ attached
    /\ module = Driver
    /\ host.alive
    /\ reader = Idle
    /\ devices.m_device.exists
    /\ devices.m_device.activation # "ok"
    /\ devices' =
           [devices EXCEPT !.m_device =
               [ exists |-> TRUE, m_unObjectId |-> unObjectId,
                 is_active_ |-> TRUE,
                 activation |-> IF VRProperties THEN "ok" ELSE "failed" ]]
    /\ UNCHANGED << module, configFile, g_initialized, g_realOpenVR,
                    g_realIVRInput, g_realIVRSystem, Real_xr, g_config,
                    s_library, s_reader, s_connected, g_treadmillState,
                    g_actionNames, g_isMovementAction, host, ret, producer,
                    reader, g_state, g_speedFactor, g_smoothingFactor, match,
                    attached, m_omniReader, sample, ticks, initializations >>

\* TreadmillDevice::Deactivate
TreadmillDevice_Deactivate ==
    /\ attached
    /\ module = Driver
    /\ host.alive
    /\ reader = Idle
    /\ devices.m_device.exists
    /\ devices.m_device.activation = "ok"
    /\ devices' =
           [devices EXCEPT
               !.m_device.m_unObjectId = k_unTrackedDeviceIndexInvalid,
               !.m_device.activation = "deactivated"]
    /\ UNCHANGED << module, configFile, g_initialized, g_realOpenVR,
                    g_realIVRInput, g_realIVRSystem, Real_xr, g_config,
                    s_library, s_reader, s_connected, g_treadmillState,
                    g_actionNames, g_isMovementAction, host, ret, producer,
                    reader, g_state, g_speedFactor, g_smoothingFactor, match,
                    attached, m_omniReader, sample, ticks, initializations >>

\* TreadmillVisualTracker::Activate: m_unObjectId is stored before the
\* VRProperties() test
TreadmillVisualTracker_Activate(unObjectId, VRProperties) ==
    /\ attached
    /\ module = Driver
    /\ host.alive
    /\ reader = Idle
    /\ devices.m_visualTracker.exists
    /\ devices.m_visualTracker.activation # "ok"
    /\ devices' =
           [devices EXCEPT !.m_visualTracker =
               [ exists |-> TRUE, m_unObjectId |-> unObjectId,
                 is_active_ |-> FALSE,
                 activation |-> IF VRProperties THEN "ok" ELSE "failed" ]]
    /\ UNCHANGED << module, configFile, g_initialized, g_realOpenVR,
                    g_realIVRInput, g_realIVRSystem, Real_xr, g_config,
                    s_library, s_reader, s_connected, g_treadmillState,
                    g_actionNames, g_isMovementAction, host, ret, producer,
                    reader, g_state, g_speedFactor, g_smoothingFactor, match,
                    attached, m_omniReader, sample, ticks, initializations >>

\* TreadmillVisualTracker::Deactivate
TreadmillVisualTracker_Deactivate ==
    /\ attached
    /\ module = Driver
    /\ host.alive
    /\ reader = Idle
    /\ devices.m_visualTracker.exists
    /\ devices.m_visualTracker.activation = "ok"
    /\ devices' =
           [devices EXCEPT
               !.m_visualTracker.m_unObjectId = k_unTrackedDeviceIndexInvalid,
               !.m_visualTracker.activation = "deactivated"]
    /\ UNCHANGED << module, configFile, g_initialized, g_realOpenVR,
                    g_realIVRInput, g_realIVRSystem, Real_xr, g_config,
                    s_library, s_reader, s_connected, g_treadmillState,
                    g_actionNames, g_isMovementAction, host, ret, producer,
                    reader, g_state, g_speedFactor, g_smoothingFactor, match,
                    attached, m_omniReader, sample, ticks, initializations >>

\* RunFrame when its first test fails: nothing is done for m_device
RunFrame_NoDevice ==
    /\ attached
    /\ module = Driver
    /\ host.alive
    /\ reader = Idle
    /\ ret = NoCall
    /\ devices.m_visualTracker.exists
    /\ ~Published(devices.m_device)
    /\ reader' = [pc |-> "TreadmillVisualTracker::GetPose"]
    /\ UNCHANGED << module, configFile, g_initialized, g_realOpenVR,
                    g_realIVRInput, g_realIVRSystem, Real_xr, g_config,
                    s_library, s_reader, s_connected, g_treadmillState,
                    g_actionNames, g_isMovementAction, host, ret, producer,
                    g_state, g_speedFactor, g_smoothingFactor, match,
                    attached, m_omniReader, sample, ticks, devices,
                    initializations >>

\* RunFrame when its second test fails: nothing is done for m_visualTracker
RunFrame_NoVisualTracker ==
    /\ attached
    /\ module = Driver
    /\ reader = [pc |-> "TreadmillVisualTracker::GetPose"]
    /\ ret = NoCall
    /\ ~Published(devices.m_visualTracker)
    /\ reader' = Idle
    /\ UNCHANGED << module, configFile, g_initialized, g_realOpenVR,
                    g_realIVRInput, g_realIVRSystem, Real_xr, g_config,
                    s_library, s_reader, s_connected, g_treadmillState,
                    g_actionNames, g_isMovementAction, host, ret, producer,
                    g_state, g_speedFactor, g_smoothingFactor, match,
                    attached, m_omniReader, sample, ticks, devices,
                    initializations >>

\* the driver with both devices activated, after n callbacks that all
\* carried a centred pad and ring angle 0 (every smoothed value is still 0)
Running(settings, n) ==
    /\ module = Driver
    /\ configFile = settings
    /\ g_initialized = FALSE
    /\ g_realOpenVR = FALSE
    /\ g_realIVRInput = FALSE
    /\ g_realIVRSystem = FALSE
    /\ Real_xr = FALSE
    /\ g_config = TreadmillWrapper_Config
    /\ s_library = "null"
    /\ s_reader = "null"
    /\ s_connected = FALSE
    /\ g_treadmillState = TreadmillState
    /\ g_actionNames = EmptyMap
    /\ g_isMovementAction = EmptyMap
    /\ host = [alive |-> TRUE, actions |-> EmptyMap]
    /\ ret = NoCall
    /\ producer = Idle
    /\ reader = Idle
    /\ g_state = IF n = 0 THEN XYState
                 ELSE [XYState EXCEPT !.logCounter = n, !.dataId = 1]
    /\ g_speedFactor = IF settings.exists /\ settings.speed_factor > 0
                       THEN settings.speed_factor ELSE 1000
    /\ g_smoothingFactor = IF /\ settings.exists
                              /\ settings.smoothing_factor >= 0
                              /\ settings.smoothing_factor <= Scale
                           THEN settings.smoothing_factor ELSE 300
    /\ match = NoCall
    /\ attached = TRUE
    /\ m_omniReader = "connected"
    /\ sample = IF n = 0 THEN NoSample
                ELSE [ n |-> n, ringAngle |-> 0, gamePadX |-> 127,
                       gamePadY |-> 127, timestamp |-> 1 ]
    /\ ticks = NoTick
    /\ devices = BothActivated
    /\ initializations = 0

\* a wrapper or a layer that has initialized, or the driver: fresh, or
\* MaxIngest callbacks before its logCounter reaches LogPeriod
InitFrame ==
    \/ InitPolicy
    \/ \E settings \in DriverSettings, n \in {0, LogPeriod - MaxIngest} :
           Running(settings, n)

FramePads == { <<255, 127>>, <<127, 0>> }

FrameSample ==
    /\ ret = NoCall
    /\ \/ sample.n < MaxIngest
       \/ LogPeriod - MaxIngest <= sample.n /\ sample.n < LogPeriod
    /\ \E pad \in FramePads :
           Driver_OnOmniData(90 * Scale, pad[1], pad[2], MaxTime)

FrameVisualTracker ==
    \E hmdPose \in HmdPoses : TreadmillVisualTracker_GetPose(hmdPose)

FrameDebugRequest ==
    \E cmd \in DebugCommands, arg \in DebugArgs :
        TreadmillDevice_DebugRequest(cmd, arg)

NextFrame ==
    \/ NextPolicy
    \/ FrameSample
    \/ TreadmillDevice_UpdateInputs
    \/ TreadmillDevice_GetPose
    \/ FrameVisualTracker
    \/ FrameDebugRequest

SpecFrame == InitFrame /\ [][NextFrame]_vars

\* ------------------------------------------------------------ activation runs
\* the driver from its load on: Init, the runtime's Activate and Deactivate
\* of each device, frames, callbacks, Cleanup
ActivateSettings == {[exists |-> FALSE]}

InitActivate == \E settings \in ActivateSettings : Loaded(Driver, settings)

NextActivate ==
    \/ \E outcome \in {"noLibrary", "ok"} : TreadmillServerDriver_Init(outcome)
    \/ \E unObjectId \in DeviceIndexes, VRProperties \in BOOLEAN :
           TreadmillDevice_Activate(unObjectId, VRProperties)
    \/ \E unObjectId \in DeviceIndexes, VRProperties \in BOOLEAN :
           TreadmillVisualTracker_Activate(unObjectId, VRProperties)
    \/ TreadmillDevice_Deactivate
    \/ TreadmillVisualTracker_Deactivate
    \/ /\ ret = NoCall
       /\ sample.n < 1
       /\ Driver_OnOmniData(90 * Scale, 255, 127, MaxTime)
    \/ TreadmillDevice_UpdateInputs
    \/ TreadmillDevice_GetPose
    \/ \E hmdPose \in HmdPoses : TreadmillVisualTracker_GetPose(hmdPose)
    \/ RunFrame_NoDevice
    \/ RunFrame_NoVisualTracker
    \/ HostReturn
    \/ TreadmillServerDriver_Cleanup

SpecActivate == InitActivate /\ [][NextActivate]_vars

\* ------------------------------------------------------------ validator runs
\* settings with smoothing factor 1.0: every callback's sample is the
\* smoothed state
CompassSettings ==
    { [exists |-> TRUE, speed_factor |-> 1000, smoothing_factor |-> 1000] }

CompassAngles == {0, 90 * Scale, 180 * Scale, 270 * Scale}

\* centred, forward (gamePadY = 0 is y = +1), right
CompassPads == { <<127, 127>>, <<127, 0>>, <<255, 127>> }

\* the headset at the origin, 1 m east (+X) of it, 1 m along +Z, 3 cm east
CompassPoses ==
    { [bPoseIsValid |-> TRUE, x |-> 0, y |-> 1700, z |-> 0],
      [bPoseIsValid |-> TRUE, x |-> 1000, y |-> 1700, z |-> 0],
      [bPoseIsValid |-> TRUE, x |-> 0, y |-> 1700, z |-> 1000],
      [bPoseIsValid |-> TRUE, x |-> 30, y |-> 1700, z |-> 0],
      [bPoseIsValid |-> FALSE, x |-> 0, y |-> 0, z |-> 0] }

InitCompass ==
    \E settings \in CompassSettings : Running(settings, LogPeriod - MaxIngest)

CompassSample ==
    /\ ret = NoCall
    /\ sample.n < LogPeriod
    /\ \E ringAngle \in CompassAngles, pad \in CompassPads :
           Driver_OnOmniData(ringAngle, pad[1], pad[2], MaxTime)

CompassVisualTracker ==
    \E hmdPose \in CompassPoses : TreadmillVisualTracker_GetPose(hmdPose)

NextCompass ==
    \/ CompassSample
    \/ TreadmillDevice_UpdateInputs
    \/ TreadmillDevice_GetPose
    \/ CompassVisualTracker
    \/ HostReturn

SpecCompass == InitCompass /\ [][NextCompass]_vars

\* ------------------------------------------------------------ classifier runs
\* longest action name and longest pattern body tried, over the letters below
MaxLen == 3
MaxBody == 2
Chars == {"m", "o", "O"}

Words(n) == UNION {[1..k -> Chars] : k \in 0..n}

Names == Words(MaxLen) \cup ActionNames

\* a body with an optional leading and an optional trailing "*"; not empty
Patterns ==
    {p \in UNION {{b, <<"*">> \o b, b \o <<"*">>, <<"*">> \o b \o <<"*">>} :
                      b \in Words(MaxBody)} : p # <<>>}

PatternLists ==
    {<<p>> : p \in Patterns}
    \cup {<<p, q>> : p, q \in {<<"m">>, <<"*", "O">>, <<"o", "*">>}}
    \cup {<<DefaultPatterns[1]>>, DefaultPatterns}

\* the classification loop (openvr_wrapper.cpp 71-79, openxr_interceptor.cpp
\* 105-113) run on one name against one pattern list
Classify(name, patterns) ==
    /\ attached
    /\ match = NoCall
    /\ match' = [ site |-> "classify", name |-> name, patterns |-> patterns,
                  isMovement |-> isMovement(name, patterns) ]
    /\ UNCHANGED << module, configFile, g_initialized, g_realOpenVR,
                    g_realIVRInput, g_realIVRSystem, Real_xr, g_config,
                    s_library, s_reader, s_connected, g_treadmillState,
                    g_actionNames, g_isMovementAction, host, ret, producer,
                    reader, g_state, g_speedFactor, g_smoothingFactor,
                    attached, m_omniReader, sample, ticks, devices,
                    initializations >>

InitMatch ==
    \E m \in {Wrapper, Layer} : Loaded(m, [exists |-> FALSE])

NextMatch ==
    \E name \in Names, patterns \in PatternLists : Classify(name, patterns)

SpecMatch == InitMatch /\ [][NextMatch]_vars


\* ============================================================ properties
\* what a read is, in the words of the specification
Succeeded(r) == r.result \in {"VRInputError_None", "true", "XR_SUCCESS"}

\* a read through IVRInput or OpenXR names an action; a legacy read does not
ActionRead(r) == "action" \in DOMAIN r

\* the action of the read is registered and its name matches a pattern
Movement(r) ==
    IF ActionRead(r)
    THEN /\ r.action \in DOMAIN host.actions
         /\ isMovement(host.actions[r.action], g_config.actionPatterns)
    ELSE TRUE

IsPrefix(s, t) == Len(s) <= Len(t) /\ SubSeq(t, 1, Len(s)) = s

\* a target selector is configured: targetControllerIndex >= 0 in the
\* wrapper, targetPaths in the layer
SelectorConfigured ==
    IF module = Wrapper THEN g_config.targetControllerIndex >= 0
    ELSE g_config.targetPaths # <<>>

\* the target of the read matches the selector
TargetMatches(r) ==
    IF module = Wrapper THEN r.target = g_config.targetControllerIndex
    ELSE \E i \in DOMAIN g_config.targetPaths :
             IsPrefix(r.target, g_config.targetPaths[i])

\* the reads the injection policy is to be applied to
Injecting(r) ==
    /\ r.site # "none"
    /\ Succeeded(r)
    /\ r.connected
    /\ Movement(r)
    /\ SelectorConfigured => TargetMatches(r)

MaxAbs(v) ==
    CHOOSE m \in {Abs(v[i]) : i \in DOMAIN v} :
        \A i \in DOMAIN v : Abs(v[i]) <= m

ClampedSum(current, treadmill) ==
    [i \in DOMAIN current |-> clamp(current[i] + treadmill[i], -Scale, Scale)]

HasFlag(r) == "active" \in DOMAIN r.out

\* C1: No torn reads: a reader that loads the treadmill x and y for one
\* decision gets both from the same ingest, never x of ingest k with y of
\* ingest k-1.  (Refuted under SpecRace: x and y are separate atomics.)
C1_NoTornRead ==
    reader.pc = "switch" => reader.xFrom = reader.yFrom

C3_AdditiveAlways ==
    (Injecting(ret) /\ ret.inputMode = "Additive") =>
        /\ ret.out.value = ClampedSum(ret.current.value, ret.treadmill)
        /\ HasFlag(ret) =>
               ret.out.active = (ret.current.active
                                 \/ MaxAbs(ret.treadmill) > ActivationThreshold)

C5_TargetFilter ==
    (ret.site # "none" /\ SelectorConfigured /\ ~TargetMatches(ret)) =>
        ret.out = ret.current


\* the activation rule with a given threshold, as a read shows it: the flag
\* is raised exactly when the treadmill is active, and outside Additive the
\* value is replaced exactly then
ActiveRule(r, threshold) ==
    /\ HasFlag(r) =>
           r.out.active = (r.current.active \/ MaxAbs(r.treadmill) > threshold)
    /\ r.inputMode # "Additive" =>
           r.out.value = IF MaxAbs(r.treadmill) > threshold
                         THEN r.treadmill ELSE r.current.value

\* the activationThreshold the configuration file asks for (default 0.05)
ConfiguredThreshold ==
    IF "activationThreshold" \in DOMAIN configFile
    THEN configFile.activationThreshold ELSE 50

Fold(s) == [i \in 1..Len(s) |-> tolower(s[i])]

Glob(name, pattern) ==
    LET n == Fold(name)
        p == Fold(pattern)
        lead == p[1] = "*"
        trail == p[Len(p)] = "*"
        body == SubSeq(p, IF lead THEN 2 ELSE 1,
                       IF trail THEN Len(p) - 1 ELSE Len(p))
    IN  IF lead /\ trail
        THEN \E i \in 0..Len(n) : \E j \in i..Len(n) : SubSeq(n, i + 1, j) = body
        ELSE IF lead THEN \E i \in 0..Len(n) : SubSeq(n, i + 1, Len(n)) = body
        ELSE IF trail THEN \E j \in 0..Len(n) : SubSeq(n, 1, j) = body
        ELSE n = p

\* C7: classify(name) is true iff name matches, after case folding of both
\* sides, at least one pattern of the list under the grammar above; in
\* particular "LeftHand/Locomotion/Move" matches "*move*" and "Jump" matches
\* none of the default patterns.
C7_Classify ==
    match.site = "classify" =>
        /\ match.isMovement <=>
               \E i \in DOMAIN match.patterns :
                   Glob(match.name, match.patterns[i])
        /\ (match.name = Move /\ match.patterns = <<DefaultPatterns[1]>>) =>
               match.isMovement
        /\ (match.name = Jump /\ match.patterns = DefaultPatterns) =>
               ~match.isMovement

C7_Witness ==
    /\ match.site = "classify"
    /\ match.name = Move
    /\ match.patterns = <<DefaultPatterns[1]>>
    /\ match.isMovement

\* C8: A read of an action that was never registered, or whose name matches
\* no pattern, is treated as non-movement: the host's value and active flag
\* come back unchanged with the real call's result, whatever the treadmill
\* state and the mode.
C8_UnknownActionUnchanged ==
    (ret.site # "none" /\ ActionRead(ret) /\ ~Movement(ret)) =>
        ret.out = ret.current

C8_Witness ==
    /\ ret.site # "none"
    /\ ActionRead(ret)
    /\ ret.action \notin DOMAIN host.actions
    /\ Succeeded(ret)
    /\ ret.connected
    /\ MaxAbs(ret.treadmill) > ActivationThreshold
    /\ ret.current.value # ret.treadmill
    /\ ret.out = ret.current

\* C9: The classification mapping keeps its entries until the owning
\* instance is destroyed and is empty after that: with no live instance no
\* handle registered earlier is still treated as movement.  (Refuted: the
\* OpenVR wrapper never clears its maps.)
C9_ClearedOnDestroy ==
    ~host.alive => g_isMovementAction = EmptyMap

\* C10: After any sequence of ingests with any pad values and any loaded
\* configuration, smoothedX and smoothedY lie in [-1,1].  (Refuted: a
\* smoothing factor above 1 is loaded as it is.)
C10_SmoothedInRange ==
    /\ Abs(g_treadmillState.x) <= Scale
    /\ Abs(g_treadmillState.y) <= Scale
    /\ Abs(g_state.x_smoothed) <= Scale
    /\ Abs(g_state.y_smoothed) <= Scale


\* ------------------------------------------------------------ C11
\* alpha*raw + (1-alpha)*smoothed, exactly, in units of 1/Scale^2
EMA(alpha, raw, smoothed) == alpha * raw + (Scale - alpha) * smoothed

\* v is that value to within the rounding of the arithmetic that produced
\* it (one rounded product in ApplySmoothing, two in the driver's expression)
IsEMA(v, alpha, raw, smoothed, roundings) ==
    Abs(Scale * v - EMA(alpha, raw, smoothed)) < roundings * Scale

\* one step of an ingest: the smoothing statement computes the EMA of the
\* processed sample and the stored value, and the stores put it into x and y
EMAStep ==
    /\ (producer.pc = "ApplySmoothing" /\ producer'.pc = "x.store") =>
           /\ IsEMA(producer'.smoothedX, g_config.smoothing, producer.x,
                    g_treadmillState.x, 1)
           /\ IsEMA(producer'.smoothedY, g_config.smoothing, producer.y,
                    g_treadmillState.y, 1)
    /\ (producer.pc = "x.store" /\ producer'.pc = "y.store") =>
           g_treadmillState'.x = producer.smoothedX
    /\ (producer.pc = "y.store" /\ producer'.pc = "yaw.store") =>
           g_treadmillState'.y = producer.smoothedY
    /\ (module = Driver /\ sample'.n = sample.n + 1) =>
           /\ IsEMA(g_state'.x_smoothed, g_smoothingFactor, g_state'.x,
                    g_state.x_smoothed, 2)
           /\ IsEMA(g_state'.y_smoothed, g_smoothingFactor, g_state'.y,
                    g_state.y_smoothed, 2)

\* the first callback was (90, 255, 127) and has returned, under alpha = 0.3,
\* deadzone = 0.1 and speedMultiplier = 1.5
FirstIngestDone ==
    /\ sample.n = 1
    /\ sample.ringAngle = 90 * Scale
    /\ sample.gamePadX = 255
    /\ sample.gamePadY = 127
    /\ producer.pc = "idle"
    /\ IF module = Driver THEN g_smoothingFactor = 300
       ELSE /\ g_config.smoothing = 300
            /\ g_config.deadzone = 100
            /\ g_config.speedMultiplier = 1500

\* C11: every ingest replaces each smoothed pad axis by
\* alpha*raw + (1-alpha)*smoothed, raw the processed sample of that ingest and
\* alpha the smoothing factor; from the all-zero state, alpha = 0.3,
\* deadzone = 0.1, speedMultiplier = 1.5, the ingest (90, 255, 127) leaves
\* smoothedX = 0.3 and smoothedY = 0
C11_EMA ==
    /\ [][EMAStep]_vars
    /\ [](FirstIngestDone =>
              IF module = Driver
              THEN g_state.x_smoothed = 300 /\ g_state.y_smoothed = 0
              ELSE g_treadmillState.x = 300 /\ g_treadmillState.y = 0)

\* the second ingest of a full push right under the default configuration:
\* 0.3 of the way from 0.3 to 1
C11_Witness ==
    /\ module = Wrapper
    /\ sample.n = 2
    /\ sample.gamePadX = 255
    /\ producer.pc = "idle"
    /\ g_config.smoothing = 300
    /\ g_treadmillState.x = 510
    /\ g_treadmillState.updateCount = 2


\* ------------------------------------------------------------ C12
\* the smoothing factor in force, the smoothed pair, and the processed sample
\* of the last callback
Alpha == IF module = Driver THEN g_smoothingFactor ELSE g_config.smoothing

SmoothedPair ==
    IF module = Driver THEN <<g_state.x_smoothed, g_state.y_smoothed>>
    ELSE <<g_treadmillState.x, g_treadmillState.y>>

RawPair ==
    IF module = Driver THEN <<g_state.x, g_state.y>>
    ELSE << ProcessAxis(Normalize(sample.gamePadX)),
            ProcessAxis(-Normalize(sample.gamePadY)) >>

\* the distance from the target below which the rounding of one ingest (at
\* most two units of 1/Scale) is no longer smaller than its step
Resolution(alpha) == Div(2 * Scale, alpha) + 1

\* the same for the driver's two rounded products, which can also round the
\* result to the other side of the target
DriverBand(alpha) ==
    1 + (IF alpha < Scale - alpha THEN Div(2 * Scale, alpha)
         ELSE Div(2 * Scale, Scale - alpha))

\* s2 is no farther from r than s and on the same side of it
Toward(s, s2, r) ==
    /\ Abs(s2 - r) <= Abs(s - r)
    /\ (s2 - r) * (s - r) >= 0

\* one ingest moves each axis toward the processed sample it was given
\* (for the driver: up to the rounding band around the target)
TowardStep ==
    (sample'.n = sample.n + 1 /\ 0 < Alpha /\ Alpha < Scale) =>
        \A i \in 1..2 :
            LET s == SmoothedPair[i]
                s2 == SmoothedPair'[i]
                r == RawPair'[i]
            IN  IF module # Driver THEN Toward(s, s2, r)
                ELSE IF Abs(s - r) > DriverBand(Alpha) THEN Toward(s, s2, r)
                ELSE Abs(s2 - r) <= DriverBand(Alpha)

Settled ==
    /\ sample.n > 0
    /\ \A i \in 1..2 : Abs(SmoothedPair[i] - RawPair[i]) <= Resolution(Alpha)

\* C12: for 0 < alpha < 1, repeated ingests of one constant sample r move the
\* smoothed value monotonically toward r (the distance never grows, the
\* value never crosses r) and the distance eventually stays below the
\* resolution of the arithmetic
C12_Converges ==
    /\ [][TowardStep]_vars
    /\ (0 < Alpha /\ Alpha < Scale) => <>[]Settled

\* a wrapper under alpha = 0.3 that was pushed right, then held full left
\* for the whole run: the value has crossed zero and sits next to -1
C12_Witness ==
    /\ module = Wrapper
    /\ g_config.smoothing = 300
    /\ sample.n = MaxIngest + MaxSettle
    /\ sample.gamePadX = 0
    /\ g_treadmillState.x < -500
    /\ Abs(g_treadmillState.x + Scale) <= Resolution(300)


\* ------------------------------------------------------------ C13, C14
\* the yaw a reader gets: g_state.yaw_smoothed in the driver (UpdateInputs,
\* GetPose), g_treadmillState.yaw in the wrapper and the layer
ExposedYaw ==
    IF module = Driver THEN g_state.yaw_smoothed ELSE g_treadmillState.yaw

\* C13: after any sequence of ingests, whatever the ring angles, the smoothed
\* yaw exposed to readers is in [0,360)
C13_YawInRange == 0 <= ExposedYaw /\ ExposedYaw < 360 * Scale

\* C14: on every ingest the smoothed yaw moves by at most alpha*180 degrees
C14_NoJump ==
    [][sample'.n = sample.n + 1 =>
           Abs(ExposedYaw' - ExposedYaw) <= Alpha * 180]_vars


\* ------------------------------------------------------------ C15
\* clamp((pad-127)/127, -1, 1) of a pad byte
NormalizedByte(pad) == clamp(Div((pad - 127) * Scale, 127), -Scale, Scale)

\* C15: the normalized raw sample of every pad byte is
\* x = clamp((padX-127)/127, -1, 1), y = clamp(-(padY-127)/127, -1, 1), so
\* the raw pair that is stored (driver) or passed on to the deadzone step
\* (wrapper, layer) never leaves [-1,1]
C15_Normalized ==
    /\ producer.pc = "ApplyDeadzone" =>
           /\ producer.x = NormalizedByte(sample.gamePadX)
           /\ producer.y = -NormalizedByte(sample.gamePadY)
    /\ (module = Driver /\ sample.n > 0) =>
           /\ g_state.x = NormalizedByte(sample.gamePadX)
           /\ g_state.y = -NormalizedByte(sample.gamePadY)


\* ------------------------------------------------------------ C16
Sign(v) == IF v > 0 THEN 1 ELSE IF v < 0 THEN -1 ELSE 0

\* out is what the deadzone rule of the specification gives for v
DeadzoneRule(v, deadzone, out) ==
    /\ Abs(v) < deadzone => out = 0
    /\ Abs(v) >= deadzone =>
           out = Sign(v) * Div((Abs(v) - deadzone) * Scale, Scale - deadzone)
    /\ Abs(v) = deadzone => out = 0
    /\ Abs(v) = Scale => Abs(out) = Scale

\* C16: for every deadzone in [0,1), ApplyDeadzone(v, deadzone) is 0 for
\* |v| < deadzone and sign(v)*(|v|-deadzone)/(1-deadzone) otherwise, hence 0
\* at |v| = deadzone and of magnitude exactly 1 at |v| = 1
C16_Deadzone ==
    [][(/\ producer.pc = "ApplyDeadzone"
        /\ producer'.pc = "speedMultiplier"
        /\ 0 <= g_config.deadzone
        /\ g_config.deadzone < Scale) =>
           /\ DeadzoneRule(producer.x, g_config.deadzone, producer'.x)
           /\ DeadzoneRule(producer.y, g_config.deadzone, producer'.y)]_vars

\* full scale on both axes through a deadzone of 0.5
C16_Witness ==
    /\ producer.pc = "speedMultiplier"
    /\ g_config.deadzone = 500
    /\ sample.gamePadX = 254
    /\ sample.gamePadY = 0
    /\ producer.x = Scale
    /\ producer.y = Scale


\* ------------------------------------------------------------ C17
\* the update counter and the recorded timestamp of the loaded binary
UpdateCount ==
    IF module = Driver THEN g_state.logCounter
    ELSE g_treadmillState.updateCount

RecordedTime ==
    IF module = Driver THEN g_state.dataId
    ELSE g_treadmillState.lastUpdateTime

\* an ingest adds one to the counter, records its clock reading and (wrapper,
\* layer: the driver's state has no such flag) sets active; nothing else
\* changes the counter
CounterStep ==
    IF sample'.n = sample.n + 1
    THEN /\ UpdateCount' = UpdateCount + 1
         /\ RecordedTime' = sample'.timestamp
         /\ module # Driver => g_treadmillState'.active
    ELSE UpdateCount' = UpdateCount

\* C17: each ingest increments updateCount by exactly one, records the
\* timestamp and sets active; with the one producer, updateCount is the
\* number of completed ingests at all times and never decreases
C17_Counter ==
    /\ [](UpdateCount = sample.n)
    /\ [][CounterStep]_vars

\* two ingests counted, the second stamped with a later clock reading, and
\* the count kept through the shutdown of the wrapper
C17_Witness ==
    /\ module = Wrapper
    /\ ~attached
    /\ sample.n = 2
    /\ g_treadmillState.updateCount = 2
    /\ g_treadmillState.lastUpdateTime = 2
    /\ g_treadmillState.active


\* ------------------------------------------------------------ C18
\* C18: while the hardware source is not connected (before a successful
\* OmniBridge::Initialize, after a failed one, after Shutdown)
\* TreadmillState.active is false
C18_InactiveWhenDisconnected ==
    (module \in {Wrapper, Layer} /\ ~s_connected) => ~g_treadmillState.active


\* ------------------------------------------------------------ C19
\* the smoothed x, y and yaw and the update counter, as each binary keeps them
SmoothedFields ==
    IF module = Driver
    THEN << g_state.x_smoothed, g_state.y_smoothed, g_state.yaw_smoothed,
            g_state.logCounter >>
    ELSE << g_treadmillState.x, g_treadmillState.y, g_treadmillState.yaw,
            g_treadmillState.updateCount >>

\* a step in which an interception site, UpdateInputs, a GetPose (with its
\* direction validator) or a debug request hands its result to the host
SiteStep == ret' # ret /\ ret' # NoCall

OnlyIngestWrites ==
    /\ SiteStep => SmoothedFields' = SmoothedFields
    /\ SmoothedFields' # SmoothedFields => sample'.n = sample.n + 1

\* C19: only ingest changes the smoothed x, y, yaw and the update counter;
\* the injection policy at every interception site, UpdateInputs, both
\* GetPose methods and the direction validator leave them unchanged
C19_OnlyIngest == [][OnlyIngestWrites]_vars

\* the visual tracker's GetPose has run its direction validator on a
\* non-zero smoothed sample and stored the HMD position
C19_Witness ==
    /\ ret.site = "TreadmillVisualTracker::GetPose"
    /\ ret.validator = "compared"
    /\ g_state.yaw_smoothed # 0
    /\ g_state.x_smoothed # 0
    /\ g_state.lastHmdX # 0

\* an interception site has injected while smoothed values are present
C19_SiteWitness ==
    /\ module \in {Wrapper, Layer}
    /\ ret # NoCall
    /\ g_treadmillState.updateCount > 0
    /\ g_treadmillState.x # 0

\* ------------------------------------------------------------ C20
\* every tunable of the three binaries
Tunables == << g_config, g_speedFactor, g_smoothingFactor >>

Retuned(tag, v) ==
    /\ module = Driver
    /\ ret'.site = "TreadmillDevice::DebugRequest"
    /\ ret'.response = <<tag, v>>

RetuneStep ==
    /\ g_config' = g_config
    /\ g_speedFactor' # g_speedFactor =>
           /\ Retuned("SPEED=", g_speedFactor')
           /\ g_speedFactor' > 0
           /\ g_smoothingFactor' = g_smoothingFactor
    /\ g_smoothingFactor' # g_smoothingFactor =>
           /\ Retuned("SMOOTHING=", g_smoothingFactor')
           /\ 0 <= g_smoothingFactor' /\ g_smoothingFactor' <= Scale
           /\ g_speedFactor' = g_speedFactor

SpeedInEffect == IF module = Driver THEN g_speedFactor
                 ELSE g_config.speedMultiplier

SmoothingInEffect == IF module = Driver THEN g_smoothingFactor
                     ELSE g_config.smoothing

\* C21: the tunables in effect always satisfy speedMultiplier > 0,
\* deadzone in [0,1) and smoothingFactor in [0,1]
C21_TunablesValid ==
    /\ SpeedInEffect > 0
    /\ 0 <= SmoothingInEffect /\ SmoothingInEffect <= Scale
    /\ module # Driver => 0 <= g_config.deadzone /\ g_config.deadzone < Scale


\* ------------------------------------------------------------ C22
\* the validator has reported on a frame in which the headset moved east (+X)
EastReport ==
    /\ ret.site = "TreadmillVisualTracker::GetPose"
    /\ ret.report.line # "none"
    /\ ret.report.actual = << Scale, 0 >>

JoystickForward == g_state.x_smoothed = 0 /\ g_state.y_smoothed = Scale

\* C22: headset 1 m east with smoothedYaw = 90 and the joystick forward gives
\* a deviation of about 0 degrees, classified OK; the same displacement with
\* yaw = 0 gives about 90 degrees, a mismatch; every deviation above
\* 5 degrees is a mismatch
C22_ValidatorVerdicts ==
    /\ (EastReport /\ JoystickForward /\ ret.rawYaw = 90 * Scale) =>
           /\ ret.report.angleDiff <= 1 * Scale
           /\ ret.report.line = "Direction OK"
    /\ (EastReport /\ JoystickForward /\ ret.rawYaw = 0) =>
           /\ ret.report.angleDiff \in (89 * Scale)..(91 * Scale)
           /\ ret.report.line = "DIRECTION MISMATCH!"
    /\ (ret.site = "TreadmillVisualTracker::GetPose"
        /\ ret.report.line # "none") =>
           (ret.report.line = "DIRECTION MISMATCH!"
               <=> ret.report.angleDiff > 5 * Scale)


\* ------------------------------------------------------------ C23
\* the order of the specification for one axis: deadzone, speed multiplier,
\* clamp
Pipeline(v, deadzone, speedMultiplier) ==
    clamp(Mul(ApplyDeadzone(v, deadzone), speedMultiplier), -Scale, Scale)

\* the driver has no deadzone setting of its own: the default of the other
\* two copies
DriverDeadzone == TreadmillWrapper_Config.deadzone

\* C23: in every copy of the engine the value fed into the EMA is the
\* normalized sample after deadzone, speed multiplier and clamp, in this
\* order (the wrapper and the layer hold it in x, y at ApplySmoothing; the
\* driver blends the raw pair it stores)
C23_SameOrder ==
    /\ producer.pc = "ApplySmoothing" =>
           /\ producer.x = Pipeline(Normalize(sample.gamePadX),
                                    g_config.deadzone,
                                    g_config.speedMultiplier)
           /\ producer.y = Pipeline(-Normalize(sample.gamePadY),
                                    g_config.deadzone,
                                    g_config.speedMultiplier)
    /\ (module = Driver /\ sample.n > 0) =>
           /\ g_state.x = Pipeline(Normalize(sample.gamePadX),
                                   DriverDeadzone, g_speedFactor)
           /\ g_state.y = Pipeline(-Normalize(sample.gamePadY),
                                   DriverDeadzone, g_speedFactor)


\* ------------------------------------------------------------ C24
\* wrapTo(-180,180] and wrapTo[0,360) of the specification
WrapDiff(d) ==
    LET m == d % (360 * Scale)
    IN  IF m > 180 * Scale THEN m - 360 * Scale ELSE m

Wrap360(a) == a % (360 * Scale)

ShortestArcStep ==
    sample'.n = sample.n + 1 =>
        ExposedYaw' =
            Wrap360(ExposedYaw
                    + Mul(Alpha, WrapDiff(sample'.ringAngle - ExposedYaw)))

\* C24: on each ingest the yaw that readers obtain becomes
\* wrapTo[0,360)(yaw + alpha * wrapTo(-180,180](newRaw - yaw)), the shortest
\* arc (from 350 a raw angle of 10 moves it forward through 0)
C24_ShortestArc == [][ShortestArcStep]_vars


\* ------------------------------------------------------------ C25
\* a pose tick of the visual tracker
PoseTick == ret = NoCall /\ ret'.site = "TreadmillVisualTracker::GetPose"

\* the tick's headset pose was valid: the tracker's position follows the
\* headset instead of the fallback (0, 1.2, -0.5)
HmdValidAtTick == ret'.vecPosition # << 0, 1200, -500 >>

\* the headset's displacement since the previous valid pose
DisplacementAtTick ==
    Hypot(g_state'.lastHmdX - g_state.lastHmdX,
          g_state'.lastHmdZ - g_state.lastHmdZ)

ValidatorRunsStep ==
    PoseTick =>
        /\ (HmdValidAtTick /\ g_state.hmdInitialized) =>
               ret'.validator # "skipped"
        /\ (HmdValidAtTick /\ g_state.hmdInitialized
            /\ DisplacementAtTick <= 50) => ret'.report.line = "none"
        /\ ret'.report.line # "none" =>
               ret'.report.actual =
                   << Div((g_state'.lastHmdX - g_state.lastHmdX) * Scale,
                          DisplacementAtTick),
                      Div((g_state'.lastHmdZ - g_state.lastHmdZ) * Scale,
                          DisplacementAtTick) >>

\* C25: the direction validator runs on every pose tick whose headset pose is
\* valid while a previous valid sample exists, compares against that
\* previous sample, and gives no verdict for a displacement of at most 5 cm
C25_RunsEveryTick == [][ValidatorRunsStep]_vars


\* ------------------------------------------------------------ C26
\* a pose tick on which the validator logs a verdict must come at least
\* LogPeriod ticks after the previous one; ticks counts them up to MaxTick
RateLimitStep ==
    (PoseTick /\ ret'.report.line # "none") =>
        ticks >= (IF MaxTick < LogPeriod - 1 THEN MaxTick ELSE LogPeriod - 1)

\* C26: in any run of 50 consecutive pose ticks at most one mismatch/OK
\* report is emitted, whether or not ingests arrive between the ticks
C26_RateLimited == [][RateLimitStep]_vars


\* ------------------------------------------------------------ C27
\* C27: an interception site changes what it returns to the host only if
\* the real call succeeded and the treadmill is connected; a failed read and
\* a read without a connection return the host's output unchanged, in every
\* mode
C27_GuardedInjection ==
    (ret.site # "none" /\ ret.out # ret.current) =>
        (Succeeded(ret) /\ ret.connected)

\* a failed read of a movement action came back unchanged while the
\* treadmill was connected and active
C27_Witness ==
    /\ ret.site = "xrGetActionStateVector2f"
    /\ ~Succeeded(ret)
    /\ ret.connected
    /\ Movement(ret)
    /\ MaxAbs(ret.treadmill) > ActivationThreshold
    /\ ret.current.value # ret.treadmill
    /\ ret.out = ret.current

\* a successful read of a movement action without a connection
C27_Disconnected ==
    /\ ret.site = "GetAnalogActionData"
    /\ Succeeded(ret)
    /\ ~ret.connected
    /\ Movement(ret)
    /\ ret.current.active
    /\ ret.out = ret.current


\* ------------------------------------------------------------ C28
\* the lazy initialization has run and its OmniBridge::Initialize failed
InitializeFailed ==
    /\ module \in {Wrapper, Layer}
    /\ attached
    /\ g_initialized
    /\ g_config.enabled
    /\ ~OmniBridge_IsConnected

\* C28: IsConnected() is true only while the library is loaded and the reader
\* exists; whenever it is false (before Initialize, after an Initialize that
\* failed at any step, after Shutdown) both handles are null, and it is false
\* once Shutdown has run
C28_ConnectedOnlyWithReader ==
    module \in {Wrapper, Layer} =>
        /\ OmniBridge_IsConnected =>
               (s_library = "dll" /\ s_reader = "reader")
        /\ ~OmniBridge_IsConnected =>
               (s_library = "null" /\ s_reader = "null")
        /\ ~attached => ~OmniBridge_IsConnected

\* an Initialize that failed has left the bridge disconnected
C28_FailedWitness == InitializeFailed

\* Shutdown has run over a process whose lazy initialization had happened
C28_ShutdownWitness ==
    /\ module \in {Wrapper, Layer}
    /\ ~attached
    /\ g_treadmillState.updateCount > 0
    /\ ~OmniBridge_IsConnected
    /\ s_reader = "null"


\* ------------------------------------------------------------ C29
\* a step of RunFrame that hands the runtime an update for m_device
DeviceUpdate ==
    /\ ret' # ret
    /\ ret'.site \in {"UpdateScalarComponent", "TreadmillDevice::GetPose"}

\* a step of RunFrame that hands the runtime a pose of m_visualTracker
VisualTrackerUpdate ==
    /\ ret' # ret
    /\ ret'.site = "TreadmillVisualTracker::GetPose"

\* C29: RunFrame publishes input and pose updates for a device only while
\* the device is activated: after an Activate that returned success and
\* before its Deactivate or Cleanup
C29_OnlyWhileActivated ==
    [][ /\ DeviceUpdate => devices.m_device.activation = "ok"
        /\ VisualTrackerUpdate => devices.m_visualTracker.activation = "ok"
      ]_vars

\* the part of C29 the code keeps: a device that was never activated, was
\* deactivated or was destroyed by Cleanup receives no updates
C29_NoneWhenDeactivated ==
    [][ /\ DeviceUpdate =>
               devices.m_device.activation \in {"ok", "failed"}
        /\ VisualTrackerUpdate =>
               devices.m_visualTracker.activation \in {"ok", "failed"}
      ]_vars


\* ------------------------------------------------------------ C30
\* C30: the lazy initialization of the wrapper and of the layer (log open,
\* configuration load, hardware connect) runs at most once per process,
\* whatever entry points are called and whether or not an attempt failed
C30_InitializedOnce ==
    module \in {Wrapper, Layer} => initializations <= 1

\* the part of C30 the layer keeps: InitializeLayer runs its body once
C30_LayerOnce == module = Layer => initializations <= 1

\* the part of C30 the wrapper keeps: once openvr_api_original.dll has
\* loaded, the body does not run again
C30_OnceLoaded ==
    [][ (module = Wrapper /\ g_initialized) =>
            initializations' = initializations ]_vars

====
